---------------------------- MODULE Spec2Model ----------------------------
(***************************************************************************)
(* A model of the HOLD client: key derivation, the field cipher, the      *)
(* canonical signer (src/src/lib/security.ts), the vault state machine    *)
(* (AuthProvider, src/unnamed/part_006) and the record reconciler          *)
(* (HoldsProvider, second half of src/src/lib/HoldsContext.tsx).           *)
(*                                                                         *)
(* Six specifications share the variables:                                 *)
(*   SpecFiles the attachments: upload, submit, download (storage.ts and   *)
(*             the pages that call it) and deleteHold                      *)
(*   SpecSign  the functions of security.ts applied to sample values       *)
(*   SpecAuth  AuthProvider, one step per await of its calls               *)
(*   Spec      HoldsProvider against the remote store, with the vault      *)
(*             changing state through whole login/logout calls             *)
(*   SpecSnap  HoldsProvider with the onSnapshot callback in two steps     *)
(*   SpecLive  the subscription over a store that does not change, with    *)
(*             fairness for the snapshot owed and the callbacks in flight  *)
(***************************************************************************)
EXTENDS Integers, Sequences, FiniteSets, TLC

VARIABLES
    user,           \* AuthProvider: useState<User | null>
    encryptionKey,  \* AuthProvider: useState<CryptoKey | null>
    signingKey,     \* AuthProvider: useState<CryptoKey | null>
    authError,      \* AuthProvider: error
    calls,          \* SpecAuth: the login/unlock/logout calls in flight
    authUser,       \* SpecAuth: the remote auth service's current user
    db,             \* remote store: the documents of collection 'holds'
    holds,          \* HoldsProvider: useState<Hold[]>
    error,          \* HoldsProvider: error
    tampers,        \* the number of changes the remote store made on its own
    nextIv,         \* source of fresh IVs (crypto.getRandomValues)
    clock,          \* Date.now() / serverTimestamp(), in whole ticks
    last,           \* history: the last write-path call that reached the store
    written,        \* history: per id, the document as the client last wrote it
    st,             \* SpecSign: the sign / mutate / verify harness
    benchmarks,     \* remote store: the documents of collection 'public_benchmarks'
    pending,        \* SpecSnap: the onSnapshot callbacks awaiting Promise.all
    latest,         \* SpecSnap history: the latest snapshot the listener received
    storage,        \* remote storage: the uploaded objects, by storage path
    uploads,        \* Dashboard: attachments (useState<Attachment[]>) of the form
    url             \* HoldDetail: what the last handleDownload got from downloadAttachment

vars == <<user, encryptionKey, signingKey, authError, calls, authUser, db,
          holds, error, tampers, nextIv, clock, last, written, st,
          benchmarks, pending, latest, storage, uploads, url>>

(***************************************************************************)
(* JavaScript values.  Every value is a record tagged with its typeof, so  *)
(* that values of different types can be compared.                         *)
(***************************************************************************)
Null == [t |-> "null"]
Undefined == [t |-> "undefined"]
JStr(s) == [t |-> "string", s |-> s]
JNum(n) == [t |-> "number", n |-> n]
NaN == [t |-> "number", nan |-> TRUE]
JBool(b) == [t |-> "boolean", b |-> b]
JObj(f) == [t |-> "object", o |-> f]
JArr(a) == [t |-> "array", a |-> a]
\* a Date holding a valid time value, and the Invalid Date
JDate(ms) == [t |-> "date", ms |-> ms]
InvalidDate == [t |-> "date", invalid |-> TRUE]
\* a Firestore Timestamp
JTimestamp(ms) == [t |-> "timestamp", ms |-> ms]

IsObject(v) == v.t = "object"
IsArray(v) == v.t = "array"
IsString(v) == v.t = "string"
Has(v, k) == IsObject(v) /\ k \in DOMAIN v.o
\* property access v.k: undefined when absent
Get(v, k) == IF Has(v, k) THEN v.o[k] ELSE Undefined

\* ToBoolean
Truthy(v) ==
    CASE v.t = "null" -> FALSE
      [] v.t = "undefined" -> FALSE
      [] v.t = "boolean" -> v.b
      [] v.t = "number" -> IF "nan" \in DOMAIN v THEN FALSE ELSE v.n # 0
      [] v.t = "string" -> IF "s" \in DOMAIN v THEN v.s # "" ELSE TRUE
      [] OTHER -> TRUE

\* a || b
Or(a, b) == IF Truthy(a) THEN a ELSE b

Range(s) == {s[i] : i \in DOMAIN s}

(***************************************************************************)
(* Key derivation.  PBKDF2 is a function of password and salt; the salt    *)
(* is the concatenation the code builds, kept as a sequence of pieces.     *)
(* A uid is a sequence of pieces as well.                                  *)
(***************************************************************************)
PBKDF2_ITERATIONS == 600000
SALT_FIXED_PREFIX == <<"HOLD_APP_SECURE_SALT_v1_">>

deriveKey(password, uid) ==
    [alg |-> "AES-GCM", bits |-> [pw |-> password, salt |-> SALT_FIXED_PREFIX \o uid,
                                  iterations |-> PBKDF2_ITERATIONS]]

\* a signing key derived with the salt of the encryption key
deriveSigningKeySameSalt(password, uid) ==
    [alg |-> "HMAC", bits |-> [pw |-> password, salt |-> SALT_FIXED_PREFIX \o uid,
                               iterations |-> PBKDF2_ITERATIONS]]

deriveSigningKey(password, uid) ==
    [alg |-> "HMAC", bits |-> [pw |-> password,
                               salt |-> SALT_FIXED_PREFIX \o uid \o <<"_SIGNING">>,
                               iterations |-> PBKDF2_ITERATIONS]]

NoKey == [alg |-> "none"]

(***************************************************************************)
(* Field cipher.  An AES-GCM ciphertext is determined by key, IV and       *)
(* plaintext; it authenticates: decryption succeeds only under the same    *)
(* key and IV and only while the bytes are intact.                         *)
(***************************************************************************)
\* str2ab: TextEncoder.encode.  The string is first made a sequence of
\* Unicode scalar values, every unpaired surrogate becoming U+FFFD, and then
\* encoded as UTF-8.  A string is held either as a text of ordinary
\* characters (never U+FEFF) or as its UTF-16 code units, among them "HI"
\* and "LO" (a high and a low surrogate) and "BOM" (U+FEFF).
str2ab(str) ==
    LET u == str.units
        unpaired(i) == \/ u[i] = "HI" /\ (i = Len(u) \/ u[i + 1] # "LO")
                       \/ u[i] = "LO" /\ (i = 1 \/ u[i - 1] # "HI")
    IN  [t |-> "bytes",
         utf8 |-> IF "units" \in DOMAIN str
                  THEN [str EXCEPT !.units = [i \in DOMAIN u |->
                                                 IF unpaired(i) THEN "FFFD" ELSE u[i]]]
                  ELSE str]

\* ab2str: new TextDecoder().decode, which decodes UTF-8 and, ignoreBOM
\* being false, leaves a leading U+FEFF out of the string
ab2str(buf) ==
    LET str == buf.utf8
    IN  IF "units" \in DOMAIN str /\ str.units # << >> /\ Head(str.units) = "BOM"
        THEN [str EXCEPT !.units = Tail(str.units)]
        ELSE str

Ciphertext(key, iv, pt) == [t |-> "string", ct |-> [k |-> key, iv |-> iv, pt |-> pt, intact |-> TRUE]]
IvString(iv) == [t |-> "string", iv |-> iv]

\* encryptBuffer with the IV that crypto.getRandomValues returned
encryptBuffer(data, key, iv) ==
    JObj([ciphertext |-> Ciphertext(key, iv, data), iv |-> IvString(iv)])

\* encryptValue: TextEncoder.encode(text), then encryptBuffer
encryptValue(text, key, iv) == encryptBuffer(str2ab(text), key, iv)

\* crypto.subtle.decrypt rejects (decryptBuffer rethrows "Failed to decrypt data")
decryptThrows(data, key) ==
    LET c == Get(data, "ciphertext")
        i == Get(data, "iv")
    IN  ~ (/\ "ct" \in DOMAIN c
           /\ "iv" \in DOMAIN i
           /\ c.ct.intact
           /\ c.ct.k = key
           /\ c.ct.iv = i.iv)

decryptBuffer(data, key) == data.o.ciphertext.ct.pt

\* decryptValue: decryptBuffer, then TextDecoder.decode
decryptValue(data, key) == ab2str(decryptBuffer(data, key))


(***************************************************************************)
(* Canonical signer.  JSON.stringify(data, Object.keys(data).sort()): the  *)
(* array replacer is a property list that JSON.stringify applies to every  *)
(* object it serialises, at every depth, in the list's order.  The text    *)
(* produced is modelled by its structure, which determines it.             *)
(***************************************************************************)
\* the property names of the model in the order Array.prototype.sort gives
\* strings (UTF-16 code units)
KeyOrder ==
    <<"_encryptionVersion", "_signature", "amount", "attachments", "category",
      "channel", "ciphertext", "counterparty", "createdAt", "date",
      "expectedResolutionDays", "followUps", "id", "isRecurring", "iv", "message",
      "name", "nanoseconds", "notes", "originalName", "outcome", "recurrenceInterval",
      "resolution", "seconds", "size", "startDate", "status", "storagePath",
      "timeWaitedDays", "title", "tone", "type", "updatedAt", "uploadedAt", "userId">>

\* an object literal, with the order in which its properties were created
JObjK(keys, f) == [t |-> "object", o |-> f, keys |-> keys]

\* Object.keys(data)
ObjectKeys(data) == data.keys

\* Array.prototype.sort on property names
SortKeys(keys) == SelectSeq(KeyOrder, LAMBDA k : k \in Range(keys))

\* Date.prototype.toISOString
toISOString(d) == [t |-> "string", iso |-> d.ms]

\* the toJSON step of JSON.stringify
toJSON(v) ==
    CASE v.t = "date" -> IF "invalid" \in DOMAIN v THEN Null ELSE toISOString(v)
      [] v.t = "timestamp" -> JObj([seconds |-> JNum(v.ms), nanoseconds |-> JNum(0)])
      [] OTHER -> v

RECURSIVE JSONStringify(_, _)
JSONStringify(value, replacer) ==
    LET v == toJSON(value) IN
    CASE v.t = "object" ->
            LET ks == SelectSeq(replacer,
                                LAMBDA k : k \in DOMAIN v.o /\ v.o[k].t # "undefined")
            IN  [j |-> "object",
                 m |-> [i \in DOMAIN ks |-> <<ks[i], JSONStringify(v.o[ks[i]], replacer)>>]]
      [] v.t = "array" ->
            [j |-> "array",
             e |-> [i \in DOMAIN v.a |->
                      IF v.a[i].t = "undefined"
                      THEN [j |-> "literal", v |-> Null]
                      ELSE JSONStringify(v.a[i], replacer)]]
      [] v.t = "number" ->
            [j |-> "literal", v |-> IF "nan" \in DOMAIN v THEN Null ELSE v]
      [] OTHER -> [j |-> "literal", v |-> v]

\* a canonical form with the property names taken in the order of creation
canonicalStringUnsorted(data) == JSONStringify(data, ObjectKeys(data))

\* a canonical form over the fixed field set of a hold, whatever the record holds
canonicalStringOfHold(data) ==
    JSONStringify(data, SortKeys(<<"userId", "category", "startDate", "expectedResolutionDays",
                                   "status", "attachments", "followUps", "resolution",
                                   "title", "counterparty", "notes", "createdAt",
                                   "isRecurring", "recurrenceInterval">>))

canonicalString(data) == JSONStringify(data, SortKeys(ObjectKeys(data)))

\* HMAC-SHA-256 of a message under a key, as a Base64 string
Hmac(key, msg) == [t |-> "string", mac |-> [k |-> key, msg |-> msg]]

\* a signer that serialises the keys as the object lists them, unsorted
signRecordUnsorted(data, key) == Hmac(key, JSONStringify(data, ObjectKeys(data)))

signRecord(data, key) == Hmac(key, canonicalString(data))

\* base642ab(signature) throws on a string that is not Base64
verifyThrows(signature) == ~ ("mac" \in DOMAIN signature)

\* crypto.subtle.verify("HMAC", key, signatureBytes, encoded)
verifyRecord(data, signature, key) == signature = Hmac(key, canonicalString(data))

\* isEncryptedData
isEncryptedData(data) ==
    /\ Truthy(data)
    /\ IsString(Get(data, "ciphertext"))
    /\ IsString(Get(data, "iv"))

\* getHoldSigningData
getHoldSigningData(data) ==
    JObjK(<<"userId", "category", "startDate", "expectedResolutionDays", "status",
            "attachments", "followUps", "resolution", "title", "counterparty", "notes",
            "createdAt", "isRecurring", "recurrenceInterval">>,
          [userId |-> Get(data, "userId"),
           category |-> Get(data, "category"),
           startDate |-> Get(data, "startDate"),
           expectedResolutionDays |-> Get(data, "expectedResolutionDays"),
           status |-> Get(data, "status"),
           attachments |-> Or(Get(data, "attachments"), JArr(<<>>)),
           followUps |-> Or(Get(data, "followUps"), JArr(<<>>)),
           resolution |-> Or(Get(data, "resolution"), Null),
           title |-> Get(data, "title"),
           counterparty |-> Get(data, "counterparty"),
           notes |-> Or(Get(data, "notes"), Null),
           createdAt |-> Get(data, "createdAt"),
           isRecurring |-> Or(Get(data, "isRecurring"), JBool(FALSE)),
           recurrenceInterval |-> Or(Get(data, "recurrenceInterval"), Null)])


(***************************************************************************)
(* Conversions the reconciler applies to field values.                     *)
(***************************************************************************)
\* the string TextEncoder.encode(text) encodes (USVString conversion)
ToText(v) ==
    CASE v.t = "string" -> v
      [] v.t = "number" -> IF "nan" \in DOMAIN v THEN JStr("NaN")
                           ELSE [t |-> "string", dec |-> v.n]
      [] v.t = "undefined" -> JStr("")
      [] v.t = "null" -> JStr("null")
      [] v.t = "boolean" -> IF v.b THEN JStr("true") ELSE JStr("false")
      [] OTHER -> JStr("[object Object]")

\* String(n)
String(v) ==
    IF v.t = "undefined" THEN JStr("undefined") ELSE ToText(v)

\* parseInt(s, 10)
parseInt(s) == IF "dec" \in DOMAIN s THEN JNum(s.dec) ELSE NaN

\* new Date(v)
NewDate(v) ==
    CASE v.t = "date" -> v
      [] v.t = "number" -> IF "nan" \in DOMAIN v THEN InvalidDate ELSE JDate(v.n)
      [] v.t = "string" -> IF "iso" \in DOMAIN v THEN JDate(v.iso) ELSE InvalidDate
      [] v.t = "null" -> JDate(0)
      [] OTHER -> InvalidDate

IsInvalidDate(d) == "invalid" \in DOMAIN d

\* x instanceof Timestamp ? x.toDate() : (x ? new Date(x) : new Date())
DateOrNow(x, now) ==
    IF x.t = "timestamp" THEN JDate(x.ms)
    ELSE IF Truthy(x) THEN NewDate(x) ELSE JDate(now)

\* x instanceof Timestamp ? x.toDate() : new Date(x)
DateOf(x) == IF x.t = "timestamp" THEN JDate(x.ms) ELSE NewDate(x)

\* what the store keeps of a value it is sent: a Date becomes a Timestamp
RECURSIVE ToFirestore(_)
ToFirestore(v) ==
    CASE v.t = "date" -> JTimestamp(v.ms)
      [] v.t = "object" -> JObj([k \in DOMAIN v.o |-> ToFirestore(v.o[k])])
      [] v.t = "array" -> JArr([i \in DOMAIN v.a |-> ToFirestore(v.a[i])])
      [] OTHER -> v

\* the elements of x || []
ElemsOr(x) == IF Truthy(x) THEN x.a ELSE <<>>

(***************************************************************************)
(* Write path.  iv0 is the first of the fresh IVs the call draws; every    *)
(* encryptValue call of one write draws the next one.                      *)
(***************************************************************************)
\* an attachment metadata encryption that draws one IV for an attachment
EncryptAttachmentsOneIv(atts, key, iv0) ==
    [j \in DOMAIN atts |->
        JObj([name |-> encryptValue(ToText(Get(atts[j], "name")), key, iv0 + 3 * (j - 1)),
              originalName |-> encryptValue(ToText(Get(atts[j], "originalName")), key,
                                            iv0 + 3 * (j - 1)),
              type |-> encryptValue(ToText(Get(atts[j], "type")), key, iv0 + 3 * (j - 1))]
             @@ atts[j].o)]

\* the attachment metadata encryption of addHold and updateHold
EncryptAttachments(atts, key, iv0) ==
    [j \in DOMAIN atts |->
        JObj([name |-> encryptValue(ToText(Get(atts[j], "name")), key, iv0 + 3 * (j - 1)),
              originalName |-> encryptValue(ToText(Get(atts[j], "originalName")), key,
                                            iv0 + 3 * (j - 1) + 1),
              type |-> encryptValue(ToText(Get(atts[j], "type")), key, iv0 + 3 * (j - 1) + 2)]
             @@ atts[j].o)]

\* the follow-ups stored as they are held, their messages not encrypted
EncryptFollowUpsNot(fs, key, iv0) ==
    [j \in DOMAIN fs |-> JObj(IF IsObject(fs[j]) THEN fs[j].o ELSE << >>)]

\* the follow-up encryption of updateHold
EncryptFollowUps(fs, key, iv0) ==
    [j \in DOMAIN fs |->
        JObj([message |-> encryptValue(ToText(Get(fs[j], "message")), key, iv0 + (j - 1))]
             @@ (IF IsObject(fs[j]) THEN fs[j].o ELSE << >>))]

\* the number of IVs a write draws for an optional field
Drawn(v) == IF Truthy(v) THEN 1 ELSE 0

\* addHold, from "Encrypt sensitive fields" to dataToSign
addHoldData(newHold, uid, key, iv0, now) ==
    LET a == iv0 + 2 + Drawn(newHold.notes)
        atts == ElemsOr(newHold.attachments)
    IN  getHoldSigningData(JObj(
          [userId |-> uid,
           category |-> encryptValue(ToText(newHold.category), key, a),
           startDate |-> encryptValue(toISOString(NewDate(newHold.startDate)), key, a + 2),
           expectedResolutionDays |->
               encryptValue(String(newHold.expectedResolutionDays), key, a + 3),
           status |-> encryptValue(JStr("pending"), key, a + 1),
           attachments |-> JArr(EncryptAttachments(atts, key, a + 5)),
           followUps |-> JArr(<<>>),
           resolution |-> Null,
           title |-> encryptValue(ToText(newHold.title), key, iv0),
           counterparty |-> encryptValue(ToText(newHold.counterparty), key, iv0 + 1),
           notes |-> IF Truthy(newHold.notes)
                     THEN encryptValue(ToText(newHold.notes), key, iv0 + 2) ELSE Null,
           createdAt |-> encryptValue(toISOString(JDate(now)), key, a + 4),
           isRecurring |-> Or(newHold.isRecurring, JBool(FALSE)),
           recurrenceInterval |-> Or(newHold.recurrenceInterval, Null)]))

\* the IVs addHold draws
addHoldIvs(newHold) == 7 + Drawn(newHold.notes) + 3 * Len(ElemsOr(newHold.attachments))

\* updateHold, "Encrypt resolution notes if present"
EncryptResolution(res, key, iv) ==
    IF Truthy(res)
    THEN JObj([date |-> JTimestamp(NewDate(Get(res, "date")).ms),
               notes |-> IF Truthy(Get(res, "notes"))
                         THEN encryptValue(ToText(Get(res, "notes")), key, iv) ELSE Null]
              @@ res.o)
    ELSE Null

\* updateHold, from "Encrypt sensitive fields" to dataToSign
updateHoldData(merged, uid, key, iv0) ==
    LET a == iv0 + 2 + Drawn(merged.notes)
        atts == ElemsOr(merged.attachments)
        r == a + 5 + 3 * Len(atts)
        f == r + (IF Truthy(merged.resolution) THEN Drawn(Get(merged.resolution, "notes")) ELSE 0)
    IN  getHoldSigningData(JObj(
          [userId |-> uid,
           category |-> encryptValue(ToText(merged.category), key, a),
           startDate |-> encryptValue(toISOString(NewDate(merged.startDate)), key, a + 2),
           expectedResolutionDays |->
               encryptValue(String(merged.expectedResolutionDays), key, a + 3),
           status |-> encryptValue(ToText(merged.status), key, a + 1),
           attachments |-> JArr(EncryptAttachments(atts, key, a + 5)),
           followUps |-> JArr(EncryptFollowUps(ElemsOr(merged.followUps), key, f)),
           resolution |-> EncryptResolution(merged.resolution, key, r),
           title |-> encryptValue(ToText(merged.title), key, iv0),
           counterparty |-> encryptValue(ToText(merged.counterparty), key, iv0 + 1),
           notes |-> IF Truthy(merged.notes)
                     THEN encryptValue(ToText(merged.notes), key, iv0 + 2) ELSE Null,
           createdAt |-> encryptValue(toISOString(NewDate(merged.createdAt)), key, a + 4),
           isRecurring |-> Or(merged.isRecurring, JBool(FALSE)),
           recurrenceInterval |-> Or(merged.recurrenceInterval, Null)]))

\* the IVs updateHold draws
updateHoldIvs(merged) ==
    7 + Drawn(merged.notes) + 3 * Len(ElemsOr(merged.attachments))
      + (IF Truthy(merged.resolution) THEN Drawn(Get(merged.resolution, "notes")) ELSE 0)
      + Len(ElemsOr(merged.followUps))

\* updateHold throws before it writes: toISOString of an Invalid Date
\* (RangeError), f.message or att.name of a null element (TypeError); a
\* resolution date of NaN, which the store refuses, is counted here too
updateHoldThrows(merged) ==
    \/ IsInvalidDate(NewDate(merged.startDate))
    \/ IsInvalidDate(NewDate(merged.createdAt))
    \/ \E j \in DOMAIN ElemsOr(merged.followUps) :
            ElemsOr(merged.followUps)[j].t \in {"null", "undefined"}
    \/ \E j \in DOMAIN ElemsOr(merged.attachments) :
            ElemsOr(merged.attachments)[j].t \in {"null", "undefined"}
    \/ /\ Truthy(merged.resolution)
       /\ IsInvalidDate(NewDate(Get(merged.resolution, "date")))


(***************************************************************************)
(* Read path.                                                              *)
(***************************************************************************)
\* the placeholder strings of docToHold (the source's literals carry a
\* pictograph before the word)
TAMPERED == JStr("Tampered")
ENCRYPTED == JStr("Encrypted")
DECRYPTION_FAILED == JStr("Decryption Failed")

\* a placeholder choice that does not look at the flag
msgLockedOnly(isTampered) == ENCRYPTED

\* const msg = isTampered ? TAMPERED : ENCRYPTED
msg(isTampered) == IF isTampered THEN TAMPERED ELSE ENCRYPTED

\* docToHold step 1: the signature check, with its catch
SignatureCheckFails(data, signKey) ==
    /\ signKey # NoKey
    /\ Truthy(Get(data, "_signature"))
    /\ \/ verifyThrows(Get(data, "_signature"))
       \/ ~ verifyRecord(getHoldSigningData(data), Get(data, "_signature"), signKey)

\* the fields the first try block of docToHold decrypts, in its order
TryFields ==
    <<"title", "counterparty", "notes", "category", "status", "startDate",
      "expectedResolutionDays", "createdAt">>

\* the position in TryFields at which the try block is left (9: not left)
FirstThrow(data, encKey) ==
    LET bad == {i \in DOMAIN TryFields :
                   /\ isEncryptedData(Get(data, TryFields[i]))
                   /\ decryptThrows(Get(data, TryFields[i]), encKey)}
    IN  IF bad = {} THEN Len(TryFields) + 1
        ELSE CHOOSE i \in bad : \A j \in bad : i <= j

\* "Decrypt attachments metadata": one try block per attachment
DecryptAttachment(att, encKey) ==
    LET enc(k) == isEncryptedData(Get(att, k))
        bad(k) == enc(k) /\ decryptThrows(Get(att, k), encKey)
        dec(k) == IF enc(k) THEN decryptValue(Get(att, k), encKey) ELSE Get(att, k)
        name == IF bad("name") \/ bad("originalName") \/ bad("type")
                THEN DECRYPTION_FAILED ELSE dec("name")
        originalName == IF bad("name") \/ bad("originalName")
                        THEN Get(att, "originalName") ELSE dec("originalName")
        type == IF bad("name") \/ bad("originalName") \/ bad("type")
                THEN Get(att, "type") ELSE dec("type")
    IN  JObj([name |-> name, originalName |-> originalName, type |-> type]
             @@ (IF IsObject(att) THEN att.o ELSE << >>))

\* "Decrypt follow-ups"
DecryptFollowUp(f, encKey) ==
    LET message == IF isEncryptedData(Get(f, "message"))
                   THEN IF decryptThrows(Get(f, "message"), encKey)
                        THEN DECRYPTION_FAILED
                        ELSE decryptValue(Get(f, "message"), encKey)
                   ELSE Get(f, "message")
    IN  JObj([message |-> message] @@ (IF IsObject(f) THEN f.o ELSE << >>))

\* "Decrypt resolution notes"
DecryptResolution(res, encKey) ==
    IF Truthy(res) /\ isEncryptedData(Get(res, "notes"))
    THEN JObj([notes |-> IF decryptThrows(Get(res, "notes"), encKey)
                         THEN DECRYPTION_FAILED
                         ELSE decryptValue(Get(res, "notes"), encKey)] @@ res.o)
    ELSE res

\* a read path whose signature check has no catch: a throw of verifyRecord
\* leaves docToHold
docToHoldThrowsUncaught(data, encKey, signKey) ==
    \/ /\ signKey # NoKey
       /\ Truthy(Get(data, "_signature"))
       /\ verifyThrows(Get(data, "_signature"))
    \/ /\ encKey # NoKey
       /\ ~ SignatureCheckFails(data, signKey)
       /\ \/ /\ IsArray(Get(data, "followUps"))
             /\ \E j \in DOMAIN Get(data, "followUps").a :
                   Get(data, "followUps").a[j].t \in {"null", "undefined"}
          \/ /\ IsArray(Get(data, "attachments"))
             /\ \E j \in DOMAIN Get(data, "attachments").a :
                   Get(data, "attachments").a[j].t \in {"null", "undefined"}

\* docToHold rejects: att.name or f.message of a null element (TypeError),
\* which no try block of the decrypt branch covers
docToHoldThrows(data, encKey, signKey) ==
    /\ encKey # NoKey
    /\ ~ SignatureCheckFails(data, signKey)
    /\ \/ /\ IsArray(Get(data, "followUps"))
          /\ \E j \in DOMAIN Get(data, "followUps").a :
                Get(data, "followUps").a[j].t \in {"null", "undefined"}
       \/ /\ IsArray(Get(data, "attachments"))
          /\ \E j \in DOMAIN Get(data, "attachments").a :
                Get(data, "attachments").a[j].t \in {"null", "undefined"}

\* docToHold, the hold it resolves to
docToHold(id, data, encKey, signKey, now) ==
    LET isTampered == SignatureCheckFails(data, signKey)
        decrypting == encKey # NoKey /\ ~ isTampered
        left == FirstThrow(data, encKey)
        \* the value of the i-th field of the try block: conv(decrypted) when
        \* the block reached it and it is an envelope, else its initial value
        reached(i) == decrypting /\ i < left /\ isEncryptedData(Get(data, TryFields[i]))
        plain(i) == decryptValue(Get(data, TryFields[i]), encKey)
        placeholder == ~ decrypting /\ isEncryptedData(Get(data, "title"))
        title == IF reached(1) THEN plain(1)
                 ELSE IF placeholder THEN msg(isTampered) ELSE Get(data, "title")
        counterparty == IF reached(2) THEN plain(2)
                        ELSE IF placeholder THEN msg(isTampered) ELSE Get(data, "counterparty")
        notes == IF reached(3) THEN plain(3)
                 ELSE IF placeholder THEN msg(isTampered) ELSE Or(Get(data, "notes"), JStr(""))
        category == IF reached(4) THEN plain(4)
                    ELSE IF placeholder /\ isEncryptedData(Get(data, "category"))
                         THEN JStr("personal") ELSE Get(data, "category")
        status == IF reached(5) THEN plain(5)
                  ELSE IF placeholder /\ isEncryptedData(Get(data, "status"))
                       THEN JStr("pending") ELSE Get(data, "status")
        startDate == IF reached(6) THEN NewDate(plain(6))
                     ELSE DateOrNow(Get(data, "startDate"), now)
        expectedResolutionDays ==
            IF reached(7) THEN parseInt(plain(7))
            ELSE IF placeholder /\ isEncryptedData(Get(data, "expectedResolutionDays"))
                 THEN JNum(0) ELSE Get(data, "expectedResolutionDays")
        createdAt == IF reached(8) THEN NewDate(plain(8))
                     ELSE DateOrNow(Get(data, "createdAt"), now)
        updatedAt == DateOrNow(Get(data, "updatedAt"), now)
        resolution == IF decrypting THEN DecryptResolution(Get(data, "resolution"), encKey)
                      ELSE Get(data, "resolution")
        followUps == IF decrypting /\ IsArray(Get(data, "followUps"))
                     THEN JArr([j \in DOMAIN Get(data, "followUps").a |->
                                  DecryptFollowUp(Get(data, "followUps").a[j], encKey)])
                     ELSE Or(Get(data, "followUps"), JArr(<<>>))
        attachments == IF decrypting /\ IsArray(Get(data, "attachments"))
                       THEN JArr([j \in DOMAIN Get(data, "attachments").a |->
                                    DecryptAttachment(Get(data, "attachments").a[j], encKey)])
                       ELSE Or(Get(data, "attachments"), JArr(<<>>))
    IN  [id |-> id,
         userId |-> Get(data, "userId"),
         title |-> title,
         category |-> category,
         counterparty |-> counterparty,
         startDate |-> startDate,
         expectedResolutionDays |-> expectedResolutionDays,
         status |-> status,
         notes |-> notes,
         attachments |-> attachments,
         followUps |-> followUps,
         resolution |-> IF Truthy(resolution)
                        THEN JObj([date |-> DateOf(Get(resolution, "date"))] @@ resolution.o)
                        ELSE Undefined,
         createdAt |-> createdAt,
         updatedAt |-> updatedAt,
         isRecurring |-> Get(data, "isRecurring"),
         recurrenceInterval |-> Get(data, "recurrenceInterval"),
         _isTampered |-> isTampered]


(***************************************************************************)
(* Bounds and sample inputs.                                               *)
(***************************************************************************)
\* the write-path calls that reach the store in one run
MaxWrites == 2
\* the changes the remote store makes on its own in one run
MaxTamper == 1

\* the ids addDoc can hand out: one per write at most
HoldIds == 1 .. MaxWrites
Passwords == {"p1", "p2"}
U1 == <<"u1">>
NoUser == [none |-> TRUE]
TheUser == [uid |-> U1, email |-> "u1@example.com"]
\* user.uid as the string the documents carry
UidString(uid) == [t |-> "string", uid |-> uid]
Absent == [t |-> "absent"]

SampleAttachment ==
    JObj([id |-> JStr("a1"), originalName |-> JStr("report.pdf"), name |-> JStr("report.pdf"),
          type |-> JStr("application/pdf"), size |-> JNum(10), storagePath |-> JStr("users/u1/a1.enc"),
          iv |-> IvString(0), uploadedAt |-> JDate(0)])

SampleFollowUp ==
    JObj([id |-> JStr("f1"), tone |-> JStr("polite"), message |-> JStr("m1"),
          channel |-> JStr("email")])

\* what NewHold.tsx and Dashboard.tsx hand to addHold
NewHolds ==
    { [title |-> JStr("t1"), category |-> JStr("finance"), counterparty |-> JStr("c1"),
       startDate |-> JDate(0), expectedResolutionDays |-> JNum(14), status |-> JStr("pending"),
       notes |-> JStr(""), attachments |-> Undefined, isRecurring |-> Undefined,
       recurrenceInterval |-> Undefined],
      [title |-> JStr("t2"), category |-> JStr("work"), counterparty |-> JStr("c2"),
       startDate |-> JDate(0), expectedResolutionDays |-> JNum(7), status |-> JStr("pending"),
       notes |-> JStr("n1"), attachments |-> JArr(<<SampleAttachment>>),
       isRecurring |-> JBool(TRUE), recurrenceInterval |-> JStr("monthly")] }

\* the Partial<Hold> values handed to updateHold: every subset of these fields
UpdateFields ==
    [notes |-> JStr("n2"), followUps |-> JArr(<<SampleFollowUp>>)]
Updates == {[k \in S |-> UpdateFields[k]] : S \in SUBSET DOMAIN UpdateFields}

\* the notes argument of resolveHold (absent, or the form's text)
ResolutionNotes == {Undefined, JStr("r1")}

(***************************************************************************)
(* HoldsProvider and the remote store.                                     *)
(***************************************************************************)
NoCall == [op |-> "none", id |-> 0, ok |-> FALSE, given |-> [none |-> TRUE],
           changed |-> {}, sent |-> {}, prev |-> Absent, encKey |-> NoKey,
           signKey |-> NoKey]

\* no snapshot received yet
NoSnapshot == [n |-> 0]

\* isLocked of AuthProvider
isLocked == user # NoUser /\ encryptionKey = NoKey

\* holds.find(h => h.id === id)
FindHold(id) == {i \in DOMAIN holds : holds[i].id = id}

\* { ...hold, ...updates }
Merge(hold, updates) ==
    [k \in DOMAIN hold \cup DOMAIN updates |->
        IF k \in DOMAIN updates THEN updates[k] ELSE hold[k]]

\* the ids addDoc has handed out
Created == {i \in HoldIds : written[i] # Absent}

\* the documents the query where('userId', '==', user.uid) returns, by id
QueryDocs ==
    LET ids == {i \in HoldIds : db[i] # Absent /\ Get(db[i], "userId") = UidString(user.uid)}
    IN  [n \in 1 .. Cardinality(ids) |->
            CHOOSE i \in ids : Cardinality({j \in ids : j < i}) = n - 1]

\* holdsData.sort((a, b) => b.createdAt.getTime() - a.createdAt.getTime()):
\* the orders the sort may leave hs in. A comparison with an Invalid Date
\* gives NaN, an inconsistent comparator, and the order is then
\* implementation-defined.
Sorted(hs) ==
    LET n == Len(hs)
        perms == {p \in [1 .. n -> 1 .. n] : \A i, j \in 1 .. n : i # j => p[i] # p[j]}
        comparable(a, b) == ~ IsInvalidDate(a.createdAt) /\ ~ IsInvalidDate(b.createdAt)
        allValid == \A i \in 1 .. n : ~ IsInvalidDate(hs[i].createdAt)
        ok(p) == \A i, j \in 1 .. n :
                    (i < j /\ comparable(hs[p[i]], hs[p[j]])) =>
                        \/ hs[p[i]].createdAt.ms > hs[p[j]].createdAt.ms
                        \/ /\ hs[p[i]].createdAt.ms = hs[p[j]].createdAt.ms
                           /\ (allValid => p[i] < p[j])
    IN  {[i \in 1 .. n |-> hs[p[i]]] : p \in {q \in perms : ok(q)}}

\* the onSnapshot callback: docToHold of every document, the sort, setHolds;
\* one rejected docToHold rejects Promise.all and the catch sets the error
onSnapshot ==
    /\ user # NoUser
    /\ LET docs == QueryDocs
           threw == \E n \in DOMAIN docs :
                        docToHoldThrows(db[docs[n]], encryptionKey, signingKey)
           holdsData == [n \in DOMAIN docs |->
                            docToHold(docs[n], db[docs[n]], encryptionKey, signingKey, clock)]
       IN  IF threw
           THEN /\ error' = JStr("Failed to decrypt holds")
                /\ holds' = holds
           ELSE /\ holds' \in Sorted(holdsData)
                /\ error' = Null
    /\ UNCHANGED <<user, encryptionKey, signingKey, authError, calls, authUser, db,
                   tampers, nextIv, clock, last, written, st,
                   benchmarks, pending, latest, storage, uploads, url>>

\* addHold, from "Encrypt sensitive fields" to holdData: the document stored
addHoldDoc(newHold, uid, encKey, signKey, iv0, now) ==
    LET dataToSign == addHoldData(newHold, uid, encKey, iv0, now)
        signature == signRecord(dataToSign, signKey)
    IN  ToFirestore(JObj([updatedAt |-> JTimestamp(now), _signature |-> signature,
                          _encryptionVersion |-> JStr("v2-zk")] @@ dataToSign.o))

\* addHold; navigates: the caller is the form of the Dashboard, which is
\* left (and its uploads with it) when the call has returned
AddHoldCall(newHold, navigates) ==
    /\ IF user = NoUser \/ isLocked \/ encryptionKey = NoKey \/ signingKey = NoKey
       THEN UNCHANGED <<db, nextIv, clock, written, last,
                   benchmarks, pending, latest, uploads>>
       ELSE /\ clock < MaxWrites
            /\ Created # HoldIds
            /\ LET id == CHOOSE i \in HoldIds \ Created : \A j \in HoldIds \ Created : i <= j
                   holdData == addHoldDoc(newHold, UidString(user.uid), encryptionKey,
                                          signingKey, nextIv, clock)
               IN  /\ db' = [db EXCEPT ![id] = holdData]
                   /\ written' = [written EXCEPT ![id] = holdData]
                   /\ last' = [op |-> "addHold", id |-> id, ok |-> TRUE, given |-> newHold,
                               changed |-> DOMAIN newHold, sent |-> DOMAIN holdData.o,
                               prev |-> Absent,
                               encKey |-> encryptionKey, signKey |-> signingKey]
            /\ nextIv' = nextIv + addHoldIvs(newHold)
            /\ clock' = clock + 1
            /\ uploads' = IF navigates THEN << >> ELSE uploads
    /\ UNCHANGED <<user, encryptionKey, signingKey, authError, calls, authUser, holds,
                   error, tampers, st,
                   benchmarks, pending, latest, storage, url>>

addHold(newHold) == AddHoldCall(newHold, FALSE)

\* an updateHold whose first guard looks at the user only
UpdateHoldFailsUserOnly(id, updates) ==
    IF user = NoUser THEN TRUE
    ELSE IF FindHold(id) = {} THEN TRUE
    ELSE \/ updateHoldThrows(Merge(holds[CHOOSE i \in FindHold(id) : TRUE], updates))
         \/ db[id] = Absent

\* updateHold rejects: the guards, "Hold not found localy", a throw while
\* encrypting, or updateDoc of a document that is gone
UpdateHoldFails(id, updates) ==
    IF user = NoUser \/ encryptionKey = NoKey \/ signingKey = NoKey THEN TRUE
    ELSE IF FindHold(id) = {} THEN TRUE
    ELSE \/ updateHoldThrows(Merge(holds[CHOOSE i \in FindHold(id) : TRUE], updates))
         \/ db[id] = Absent

\* updateHold, as called by op (updateHold itself, updateStatus or resolveHold)
UpdateHoldCall(op, id, updates) ==
    /\ IF UpdateHoldFails(id, updates)
       THEN UNCHANGED <<db, nextIv, clock, written, last,
                   benchmarks, pending, latest, storage, uploads, url>>
       ELSE /\ clock < MaxWrites
            /\ LET hold == holds[CHOOSE i \in FindHold(id) : TRUE]
                   merged == Merge(hold, updates)
                   dataToSign == updateHoldData(merged, UidString(user.uid), encryptionKey,
                                                nextIv)
                   signature == signRecord(dataToSign, signingKey)
                   dbUpdates == ToFirestore(JObj(
                       [updatedAt |-> JTimestamp(clock), _signature |-> signature]
                       @@ dataToSign.o))
               IN  \* updateDoc: the fields sent replace the stored ones
                   /\ db' = [db EXCEPT ![id] = JObj(dbUpdates.o @@ db[id].o)]
                   /\ written' = [written EXCEPT ![id] = JObj(dbUpdates.o @@ db[id].o)]
                   /\ last' = [op |-> op, id |-> id, ok |-> TRUE, given |-> merged,
                               changed |-> DOMAIN updates, sent |-> DOMAIN dbUpdates.o,
                               prev |-> db[id],
                               encKey |-> encryptionKey, signKey |-> signingKey]
                   /\ nextIv' = nextIv + updateHoldIvs(merged)
            /\ clock' = clock + 1
    /\ UNCHANGED <<user, encryptionKey, signingKey, authError, calls, authUser, holds,
                   error, tampers, st,
                   benchmarks, pending, latest, storage, uploads, url>>

updateHold(id, updates) == UpdateHoldCall("updateHold", id, updates)

updateStatus(id, status) == UpdateHoldCall("updateStatus", id, [status |-> status])

\* a resolveHold that sends the status alone
resolveHoldStatusOnly(id, outcome, notes) ==
    IF FindHold(id) = {}
    THEN UNCHANGED vars
    ELSE UpdateHoldCall("resolveHold", id, [status |-> JStr("resolved")])

\* resolveHold: returns when the hold is not in the list, else updateHold
resolveHold(id, outcome, notes) ==
    IF FindHold(id) = {}
    THEN UNCHANGED vars
    ELSE LET hold == holds[CHOOSE i \in FindHold(id) : TRUE]
             timeWaitedDays == IF IsInvalidDate(NewDate(hold.startDate)) THEN NaN
                               ELSE JNum(clock - NewDate(hold.startDate).ms)
         IN  UpdateHoldCall("resolveHold", id,
                 [status |-> JStr("resolved"),
                  resolution |-> JObj([date |-> JDate(clock), outcome |-> outcome,
                                       timeWaitedDays |-> timeWaitedDays,
                                       notes |-> IF notes.t \in {"undefined", "null"}
                                                 THEN JStr("") ELSE notes])])

\* deleteHold
deleteHold(id) ==
    /\ db' = [db EXCEPT ![id] = Absent]
    /\ UNCHANGED <<user, encryptionKey, signingKey, authError, calls, authUser, holds,
                   error, tampers, nextIv, clock, last, written, st,
                   benchmarks, pending, latest, storage, uploads, url>>

\* the sentinel of serverTimestamp(), as the client sends it
serverTimestamp == [t |-> "serverTimestamp"]

\* contributeToBenchmark, called with a hold of the list: a resolved hold's
\* category and waiting time are added to 'public_benchmarks' as they are
contributeToBenchmark(hold) ==
    /\ IF ~ Truthy(hold.resolution)
       THEN UNCHANGED benchmarks
       ELSE LET date == Get(hold.resolution, "date")
                daysWaited == IF IsInvalidDate(date) \/ IsInvalidDate(hold.startDate) THEN NaN
                              ELSE JNum(date.ms - hold.startDate.ms)
            IN  benchmarks' = benchmarks \cup
                    {JObj([category |-> hold.category, daysWaited |-> daysWaited,
                           contributedAt |-> serverTimestamp])}
    /\ UNCHANGED <<user, encryptionKey, signingKey, authError, calls, authUser, db, holds,
                   error, tampers, nextIv, clock, last, written, st, pending, latest, storage, uploads, url>>

(***************************************************************************)
(* The remote store acting on its own: it is not trusted, and may rewrite  *)
(* a stored document.                                                      *)
(***************************************************************************)
TamperKinds ==
    {"ciphertext", "stripSignature", "badSignature", "plainTitle", "nullFollowUp",
     "plainDates", "noUpdatedAt"}

Without(f, k) == [x \in DOMAIN f \ {k} |-> f[x]]

Tampered(doc, kind) ==
    CASE kind = "ciphertext" ->
            \* the bytes of the title's ciphertext altered
            IF isEncryptedData(Get(doc, "title")) /\ "ct" \in DOMAIN Get(doc, "title").o.ciphertext
            THEN [doc EXCEPT !.o.title.o.ciphertext.ct.intact = FALSE]
            ELSE doc
      [] kind = "stripSignature" -> JObj(Without(doc.o, "_signature"))
      [] kind = "badSignature" -> [doc EXCEPT !.o._signature = JStr("not Base64")]
      [] kind = "plainTitle" -> [doc EXCEPT !.o.title = JStr("forged")]
      [] kind = "nullFollowUp" ->
            JObj(Without([doc EXCEPT !.o.followUps = JArr(<<Null>>)].o, "_signature"))
      [] kind = "plainDates" ->
            [doc EXCEPT !.o.startDate = JTimestamp(0), !.o.createdAt = JTimestamp(0)]
      [] kind = "noUpdatedAt" ->
            \* the document as it is without a resolved updatedAt
            JObj(Without(doc.o, "updatedAt"))

Tamper(id, kind) ==
    /\ tampers < MaxTamper
    /\ db[id] # Absent
    /\ Tampered(db[id], kind) # db[id]
    /\ db' = [db EXCEPT ![id] = Tampered(db[id], kind)]
    /\ tampers' = tampers + 1
    /\ UNCHANGED <<user, encryptionKey, signingKey, authError, calls, authUser, holds,
                   error, nextIv, clock, last, written, st,
                   benchmarks, pending, latest, storage, uploads, url>>

(***************************************************************************)
(* The vault as HoldsProvider sees it through useAuth(): the state an      *)
(* AuthProvider call leaves when it has run to its end.  A call that       *)
(* fails leaves user and keys as they were (SpecAuth follows the calls     *)
(* await by await).                                                        *)
(***************************************************************************)
\* the auth-state listener reporting a restored session
sessionRestored ==
    /\ user = NoUser
    /\ user' = TheUser
    /\ UNCHANGED <<encryptionKey, signingKey, authError, calls, authUser, db, holds, error,
                   tampers, nextIv, clock, last, written, st,
                   benchmarks, pending, latest, storage, uploads, url>>

\* login that succeeds, and unlock that succeeds
login(password) ==
    /\ user' = TheUser
    /\ encryptionKey' = deriveKey(password, TheUser.uid)
    /\ signingKey' = deriveSigningKey(password, TheUser.uid)
    /\ <<encryptionKey', signingKey'>> # <<encryptionKey, signingKey>>
    /\ UNCHANGED <<authError, calls, authUser, db, holds, error, tampers, nextIv, clock,
                   last, written, st,
                   benchmarks, pending, latest, storage, uploads, url>>

\* logout that succeeds; the subscription effect then empties the list
logout ==
    /\ user # NoUser
    /\ user' = NoUser
    /\ encryptionKey' = NoKey
    /\ signingKey' = NoKey
    /\ holds' = <<>>
    /\ UNCHANGED <<authError, calls, authUser, db, error, tampers, nextIv, clock, last,
                   written, st,
                   benchmarks, pending, latest, storage, uploads, url>>

Init ==
    /\ user = NoUser
    /\ encryptionKey = NoKey
    /\ signingKey = NoKey
    /\ authError = Null
    /\ calls = <<>>
    /\ authUser = NoUser
    /\ db = [i \in HoldIds |-> Absent]
    /\ holds = <<>>
    /\ error = Null
    /\ tampers = 0
    /\ nextIv = 1
    /\ clock = 0
    /\ last = NoCall
    /\ written = [i \in HoldIds |-> Absent]
    /\ st = [pc |-> "off"]
    /\ benchmarks = {}
    /\ pending = << >>
    /\ latest = NoSnapshot
    /\ storage = << >>
    /\ uploads = << >>
    /\ url = [none |-> TRUE]

Next ==
    \/ sessionRestored
    \/ \E password \in Passwords : login(password)
    \/ logout
    \/ onSnapshot
    \/ \E newHold \in NewHolds : addHold(newHold)
    \/ \E id \in HoldIds, updates \in Updates : updateHold(id, updates)
    \/ \E id \in HoldIds : updateStatus(id, JStr("escalated"))
    \/ \E id \in HoldIds, notes \in ResolutionNotes : resolveHold(id, JStr("o1"), notes)
    \/ \E id \in HoldIds : deleteHold(id)
    \/ \E hold \in Range(holds) : contributeToBenchmark(hold)
    \/ \E id \in HoldIds, kind \in TamperKinds : Tamper(id, kind)

Spec == Init /\ [][Next]_vars

(***************************************************************************)
(* SpecSign: the functions of security.ts applied to sample values, as the *)
(* tests of SECURITY.md do: sign R under K, change R (one field at any     *)
(* depth, the order of the fields, a field more) and verify the changed    *)
(* record against the signature of R; encrypt a text and decrypt it.       *)
(***************************************************************************)
\* the record of SECURITY.md, "Testing HMAC Signing"
TestRecord ==
    JObjK(<<"id", "title", "amount", "notes">>,
          [id |-> JStr("hold_1"), title |-> JStr("Encrypted Title Blob"),
           amount |-> JNum(500), notes |-> Null])

\* a hold as the list holds it after addHold and a snapshot, with a
\* follow-up and a resolution given to updateHold
SampleMerged(newHold) ==
    Merge(docToHold(1, ToFirestore(addHoldData(newHold, UidString(U1), deriveKey("p1", U1), 1, 0)),
                    deriveKey("p1", U1), NoKey, 0),
          [followUps |-> JArr(<<SampleFollowUp>>),
           resolution |-> JObj([date |-> JDate(1), outcome |-> JStr("o1"),
                                timeWaitedDays |-> JNum(1), notes |-> JStr("r1")])])

\* the records handed to signRecord: the test's, and dataToSign of addHold
\* and of updateHold
SignSamples ==
    {TestRecord}
    \cup {addHoldData(n, UidString(U1), deriveKey("p1", U1), 1, 0) : n \in NewHolds}
    \cup {updateHoldData(SampleMerged(n), UidString(U1), deriveKey("p1", U1), 20) :
             n \in NewHolds}

SignKeys == {deriveSigningKey(p, U1) : p \in Passwords}

\* the records of which every order of the properties is tried
MaxPermuted == 4

\* a value that differs from the leaf v
Changed(v) ==
    CASE v.t = "string" ->
            IF "s" \in DOMAIN v THEN JStr("changed")
            ELSE IF "ct" \in DOMAIN v THEN [v EXCEPT !.ct.intact = FALSE]
            ELSE IF "iv" \in DOMAIN v THEN IvString(v.iv + 1)
            ELSE IF "iso" \in DOMAIN v THEN [v EXCEPT !.iso = v.iso + 1]
            ELSE IF "dec" \in DOMAIN v THEN [v EXCEPT !.dec = v.dec + 1]
            ELSE JStr("changed")
      [] v.t = "number" -> IF "nan" \in DOMAIN v THEN JNum(0) ELSE JNum(v.n + 1)
      [] v.t = "boolean" -> JBool(~ v.b)
      [] v.t = "date" -> IF "invalid" \in DOMAIN v THEN JDate(0) ELSE JDate(v.ms + 1)
      [] v.t = "timestamp" -> JTimestamp(v.ms + 1)
      [] OTHER -> JStr("changed")

\* the values that differ from v in exactly one leaf, at any depth
RECURSIVE Variants(_)
Variants(v) ==
    CASE v.t = "object" ->
            UNION {{[v EXCEPT !.o[k] = w] : w \in Variants(v.o[k])} : k \in DOMAIN v.o}
      [] v.t = "array" ->
            UNION {{[v EXCEPT !.a[i] = w] : w \in Variants(v.a[i])} : i \in DOMAIN v.a}
      [] OTHER -> {Changed(v)}

StSign(R, K) ==
    /\ st.pc = "start"
    /\ st' = [pc |-> "signed", R |-> R, K |-> K, sig |-> signRecord(R, K)]
    /\ UNCHANGED <<user, encryptionKey, signingKey, authError, calls, authUser, db,
                   holds, error, tampers, nextIv, clock, last, written,
                   benchmarks, pending, latest, storage, uploads, url>>

StMutate ==
    /\ st.pc = "signed"
    /\ \E M \in Variants(st.R) :
          st' = [pc |-> "mutated", R |-> st.R, K |-> st.K, sig |-> st.sig, M |-> M,
                 how |-> "change"]
    /\ UNCHANGED <<user, encryptionKey, signingKey, authError, calls, authUser, db,
                   holds, error, tampers, nextIv, clock, last, written,
                   benchmarks, pending, latest, storage, uploads, url>>

\* the orders a caller or the store may hand the properties of a record in:
\* reversed, rotated, and every order when the record is small
Reorderings(keys) ==
    LET n == Len(keys)
        perms == IF n > MaxPermuted THEN {}
                 ELSE {p \in [1 .. n -> 1 .. n] : \A i, j \in 1 .. n : i # j => p[i] # p[j]}
    IN  ({[i \in 1 .. n |-> keys[n + 1 - i]], [i \in 1 .. n |-> keys[(i % n) + 1]]}
         \cup {[i \in 1 .. n |-> keys[p[i]]] : p \in perms}) \ {keys}

\* the record is verified as it was signed
StKeep ==
    /\ st.pc = "signed"
    /\ st' = [pc |-> "mutated", R |-> st.R, K |-> st.K, sig |-> st.sig, M |-> st.R,
              how |-> "same"]
    /\ UNCHANGED <<user, encryptionKey, signingKey, authError, calls, authUser, db,
                   holds, error, tampers, nextIv, clock, last, written,
                   benchmarks, pending, latest, storage, uploads, url>>

\* the same properties in another order
StReorder ==
    /\ st.pc = "signed"
    /\ \E keys \in Reorderings(ObjectKeys(st.R)) :
          st' = [pc |-> "mutated", R |-> st.R, K |-> st.K, sig |-> st.sig,
                 M |-> JObjK(keys, st.R.o), how |-> "reorder"]
    /\ UNCHANGED <<user, encryptionKey, signingKey, authError, calls, authUser, db,
                   holds, error, tampers, nextIv, clock, last, written,
                   benchmarks, pending, latest, storage, uploads, url>>

\* a property the record did not have is added, with a value a stored
\* document can hold
StAddField ==
    /\ st.pc = "signed"
    /\ \E k \in Range(KeyOrder) \ DOMAIN st.R.o, v \in {JStr("added"), Null, JBool(FALSE)} :
          st' = [pc |-> "mutated", R |-> st.R, K |-> st.K, sig |-> st.sig,
                 M |-> JObjK(Append(ObjectKeys(st.R), k),
                             [x \in DOMAIN st.R.o \cup {k} |->
                                 IF x = k THEN v ELSE st.R.o[x]]),
                 how |-> "add"]
    /\ UNCHANGED <<user, encryptionKey, signingKey, authError, calls, authUser, db,
                   holds, error, tampers, nextIv, clock, last, written,
                   benchmarks, pending, latest, storage, uploads, url>>

\* the texts handed to encryptValue: the test's, the empty string, and
\* strings given by their code units: a character, a surrogate pair, an
\* unpaired surrogate, U+FEFF at the start and U+FEFF after a character
Plaintexts ==
    {JStr("Sensitive PII Data: 123-456-7890"), JStr("")}
    \cup {[t |-> "string", units |-> u] :
             u \in {<<"a">>, <<"HI", "LO">>, <<"HI">>, <<"BOM", "a">>, <<"a", "BOM">>}}

\* encryptValue(originalText, encKey), with the IV drawn
StEncrypt(V, K, iv) ==
    /\ st.pc = "start"
    /\ st' = [pc |-> "encrypted", V |-> V, K |-> K, env |-> encryptValue(V, K, iv)]
    /\ UNCHANGED <<user, encryptionKey, signingKey, authError, calls, authUser, db,
                   holds, error, tampers, nextIv, clock, last, written,
                   benchmarks, pending, latest, storage, uploads, url>>

\* decryptValue(encrypted, encKey)
StDecrypt ==
    /\ st.pc = "encrypted"
    /\ st' = [pc |-> "decrypted", V |-> st.V, K |-> st.K, env |-> st.env,
              threw |-> decryptThrows(st.env, st.K), out |-> decryptValue(st.env, st.K)]
    /\ UNCHANGED <<user, encryptionKey, signingKey, authError, calls, authUser, db,
                   holds, error, tampers, nextIv, clock, last, written,
                   benchmarks, pending, latest, storage, uploads, url>>

StVerify ==
    /\ st.pc = "mutated"
    /\ st' = [pc |-> "verified", R |-> st.R, K |-> st.K, sig |-> st.sig, M |-> st.M,
              how |-> st.how, verdict |-> verifyRecord(st.M, st.sig, st.K)]
    /\ UNCHANGED <<user, encryptionKey, signingKey, authError, calls, authUser, db,
                   holds, error, tampers, nextIv, clock, last, written,
                   benchmarks, pending, latest, storage, uploads, url>>

InitSign ==
    /\ user = NoUser
    /\ encryptionKey = NoKey
    /\ signingKey = NoKey
    /\ authError = Null
    /\ calls = <<>>
    /\ authUser = NoUser
    /\ db = [i \in HoldIds |-> Absent]
    /\ holds = <<>>
    /\ error = Null
    /\ tampers = 0
    /\ nextIv = 1
    /\ clock = 0
    /\ last = NoCall
    /\ written = [i \in HoldIds |-> Absent]
    /\ st = [pc |-> "start"]
    /\ benchmarks = {}
    /\ pending = << >>
    /\ latest = NoSnapshot
    /\ storage = << >>
    /\ uploads = << >>
    /\ url = [none |-> TRUE]

NextSign ==
    \/ \E R \in SignSamples, K \in SignKeys : StSign(R, K)
    \/ StMutate
    \/ StKeep
    \/ StReorder
    \/ StAddField
    \/ StVerify
    \/ \E V \in Plaintexts, p \in Passwords, iv \in 1 .. 2 : StEncrypt(V, deriveKey(p, U1), iv)
    \/ StDecrypt

SpecSign == InitSign /\ [][NextSign]_vars

\* C1: a record that differs from the signed record in one field, at any
\* depth, is rejected by verifyRecord under the signature of the original
C1_AnyFieldChangeRejected ==
    (st.pc = "verified" /\ st.how = "change" /\ st.M # st.R) => ~ st.verdict

(***************************************************************************)
(* Properties of the read and write paths (Spec).                          *)
(***************************************************************************)
\* the hold docToHold makes of the stored document id under the keys held
Read(id) == docToHold(id, db[id], encryptionKey, signingKey, clock)

\* the hold docToHold makes of the document the last write stored, under
\* the keys of that write
ReadBack == docToHold(last.id, written[last.id], last.encKey, last.signKey, clock)

\* the document carries a signature that verifies against its content
Verifies(doc, signKey) ==
    /\ Truthy(Get(doc, "_signature"))
    /\ ~ verifyThrows(Get(doc, "_signature"))
    /\ verifyRecord(getHoldSigningData(doc), Get(doc, "_signature"), signKey)

\* the remote store changed document id after the client wrote it
ChangedByStore(id) == written[id] # Absent /\ db[id] # Absent /\ db[id] # written[id]

\* C2: while a signing key is held, a document that the remote store changed
\* after the client wrote it (content or signature changed or removed) is
\* returned by docToHold with _isTampered = true
C2_StoreChangeFlagged ==
    \A id \in HoldIds :
        (signingKey # NoKey /\ ChangedByStore(id)) => Read(id)._isTampered

\* C3: after updateHold changed only notes, the signature stored before the
\* update does not verify against the new merged record
C3_OldSignatureRejected ==
    (/\ last.ok
     /\ last.op = "updateHold"
     /\ last.changed = {"notes"}
     /\ Verifies(last.prev, last.signKey))
        => ~ verifyRecord(getHoldSigningData(written[last.id]),
                          Get(last.prev, "_signature"), last.signKey)

\* C4: after updateHold with any subset of fields (also through updateStatus
\* and resolveHold) the stored document carries a signature that verifies
\* under the same signing key against the whole merged record, and the read
\* path returns it with _isTampered = false
C4_UpdateSignatureVerifies ==
    (last.ok /\ last.op \in {"updateHold", "updateStatus", "resolveHold"})
        => /\ Verifies(written[last.id], last.signKey)
           /\ getHoldSigningData(written[last.id]).o.title
                  = encryptValue(ToText(last.given.title), last.encKey,
                                 getHoldSigningData(written[last.id]).o.title.o.iv.iv)
           /\ ~ ReadBack._isTampered

\* C4 happens: an updateHold of notes alone reached the store
C4_Witness ==
    /\ last.ok
    /\ last.op = "updateHold"
    /\ last.changed = {"notes"}
    /\ db[last.id] = written[last.id]
    /\ ~ ReadBack._isTampered

\* the names and types of a list of attachments, the messages of a list of
\* follow-ups
AttachmentTexts(atts) ==
    [j \in DOMAIN atts |-> <<Get(atts[j], "name"), Get(atts[j], "originalName"),
                             Get(atts[j], "type")>>]
FollowUpTexts(fs) == [j \in DOMAIN fs |-> Get(fs[j], "message")]

\* C5: a hold written by addHold or updateHold and read back by docToHold
\* under the same keys has every sensitive field equal to the plaintext
\* given to the write path, and _isTampered = false (the store being honest)
C5_RoundTrip ==
    (last.ok /\ tampers = 0)
        => LET h == ReadBack
               g == last.given
           IN  /\ ~ h._isTampered
               /\ h.title = g.title
               /\ h.counterparty = g.counterparty
               /\ h.notes = g.notes
               /\ h.category = g.category
               /\ h.status = (IF last.op = "addHold" THEN JStr("pending") ELSE g.status)
               /\ h.startDate = NewDate(g.startDate)
               /\ h.expectedResolutionDays = g.expectedResolutionDays
               /\ (last.op # "addHold" => h.createdAt = g.createdAt)
               /\ AttachmentTexts(h.attachments.a) = AttachmentTexts(ElemsOr(g.attachments))
               /\ (last.op # "addHold" =>
                     /\ FollowUpTexts(h.followUps.a) = FollowUpTexts(ElemsOr(g.followUps))
                     /\ Truthy(h.resolution) = Truthy(g.resolution)
                     /\ Get(h.resolution, "notes") = Get(g.resolution, "notes"))

\* the stored document id is a signed record as the client wrote it
StoredSigned(id) ==
    /\ db[id] # Absent
    /\ db[id] = written[id]
    /\ Truthy(Get(db[id], "_signature"))

\* no member of the lists is an envelope left as stored
NoRawEnvelope(h) ==
    /\ \A j \in DOMAIN ElemsOr(h.attachments) :
          /\ ~ isEncryptedData(Get(h.attachments.a[j], "name"))
          /\ ~ isEncryptedData(Get(h.attachments.a[j], "originalName"))
          /\ ~ isEncryptedData(Get(h.attachments.a[j], "type"))
    /\ \A j \in DOMAIN ElemsOr(h.followUps) :
          ~ isEncryptedData(Get(h.followUps.a[j], "message"))
    /\ ~ isEncryptedData(Get(h.resolution, "notes"))

\* C6: read without an encryption key, a stored signed record makes
\* docToHold throw nothing and return the locked placeholder in every
\* sensitive field, never an envelope as stored (category, status and days
\* may be the code's own stand-ins, a date any Date)
C6_LockedReadAllPlaceholders ==
    \A id \in HoldIds :
        (user # NoUser /\ encryptionKey = NoKey /\ StoredSigned(id))
            => /\ ~ docToHoldThrows(db[id], encryptionKey, signingKey)
               /\ Read(id).title = ENCRYPTED
               /\ Read(id).counterparty = ENCRYPTED
               /\ Read(id).notes = ENCRYPTED
               /\ ~ isEncryptedData(Read(id).category)
               /\ ~ isEncryptedData(Read(id).status)
               /\ ~ isEncryptedData(Read(id).expectedResolutionDays)
               /\ Read(id).startDate.t = "date"
               /\ Read(id).createdAt.t = "date"
               /\ NoRawEnvelope(Read(id))

\* a step of the onSnapshot callback that changes what HoldsProvider
\* shows: the user stays, the list or the error changes
SnapshotStep ==
    /\ user # NoUser
    /\ user' = user
    /\ <<holds, error>>' # <<holds, error>>

\* C7: when the signature check of one document of a snapshot fails or
\* throws, and docToHold of no other document throws, the callback loads
\* every document of the snapshot into the list, the failing ones flagged
\* _isTampered, and sets no error
C7_TamperedRecordLoaded ==
    [][(/\ SnapshotStep
        /\ \E n \in DOMAIN QueryDocs : SignatureCheckFails(db[QueryDocs[n]], signingKey)
        /\ \A n \in DOMAIN QueryDocs :
              SignatureCheckFails(db[QueryDocs[n]], signingKey)
              \/ ~ docToHoldThrows(db[QueryDocs[n]], encryptionKey, signingKey))
       => /\ error' = Null
          /\ Len(holds') = Len(QueryDocs)
          /\ \A n \in DOMAIN QueryDocs :
                \E i \in DOMAIN holds' :
                    /\ holds'[i].id = QueryDocs[n]
                    /\ holds'[i]._isTampered
                           = SignatureCheckFails(db[QueryDocs[n]], signingKey)]_vars

\* C7 happens: the list holds a record whose verification threw, flagged,
\* next to a record that was decrypted
C7_Witness ==
    /\ error = Null
    /\ \E i, j \in DOMAIN holds :
          /\ i # j
          /\ holds[i]._isTampered
          /\ db[holds[i].id] # Absent
          /\ verifyThrows(Get(db[holds[i].id], "_signature"))
          /\ ~ holds[j]._isTampered
          /\ holds[j].title \in {JStr("t1"), JStr("t2")}

\* exactly the title of the document fails to decrypt under the key
OnlyTitleFails(doc, encKey) ==
    /\ FirstThrow(doc, encKey) = 1
    /\ \A i \in 2 .. Len(TryFields) :
          isEncryptedData(Get(doc, TryFields[i])) =>
              ~ decryptThrows(Get(doc, TryFields[i]), encKey)

\* C8: when exactly one sensitive field of a verified record (here its
\* title) fails to decrypt, that field alone is the failure placeholder and
\* the other sensitive fields are returned decrypted
C8_FailureConfinedToField ==
    \A id \in HoldIds :
        (/\ encryptionKey # NoKey
         /\ db[id] # Absent
         /\ Verifies(db[id], signingKey)
         /\ OnlyTitleFails(db[id], encryptionKey))
            => /\ Read(id).title = DECRYPTION_FAILED
               /\ isEncryptedData(Get(db[id], "counterparty")) =>
                     Read(id).counterparty = decryptValue(Get(db[id], "counterparty"),
                                                          encryptionKey)
               /\ isEncryptedData(Get(db[id], "category")) =>
                     Read(id).category = decryptValue(Get(db[id], "category"), encryptionKey)
               /\ isEncryptedData(Get(db[id], "status")) =>
                     Read(id).status = decryptValue(Get(db[id], "status"), encryptionKey)

\* C9: a record read while no key is held is never flagged _isTampered nor
\* shown with the tampered placeholder, and a record flagged _isTampered is
\* never shown with the locked placeholder
C9_LockedTamperedDistinct ==
    \A id \in HoldIds :
        db[id] # Absent =>
            /\ (encryptionKey = NoKey /\ signingKey = NoKey) =>
                   /\ ~ Read(id)._isTampered
                   /\ Read(id).title # TAMPERED
                   /\ Read(id).counterparty # TAMPERED
                   /\ Read(id).notes # TAMPERED
            /\ Read(id)._isTampered =>
                   /\ Read(id).title # ENCRYPTED
                   /\ Read(id).counterparty # ENCRYPTED
                   /\ Read(id).notes # ENCRYPTED

\* C9 happens: the list shows a record as locked, read before the keys
\* were held, and the same record now reads as tampered
C9_Witness ==
    \E i \in DOMAIN holds :
        /\ holds[i].title = ENCRYPTED
        /\ ~ holds[i]._isTampered
        /\ db[holds[i].id] # Absent
        /\ Read(holds[i].id)._isTampered
        /\ Read(holds[i].id).title = TAMPERED

(***************************************************************************)
(* SpecAuth: AuthProvider, one step per await.  A call of login, signup,   *)
(* unlock or logout occupies a slot of calls from its first statement to   *)
(* its return                                                              *)
(* or throw; the remote auth service resolves or rejects each request at   *)
(* its own time and notifies the auth-state listener.                      *)
(***************************************************************************)
\* the calls of AuthProvider in flight at one time
MaxCalls == 2
CallSlots == 1 .. MaxCalls
Idle == [pc |-> "idle"]

holdsVars == <<db, holds, error, tampers, nextIv, clock, last, written, st,
               benchmarks, pending, latest, storage, uploads, url>>

\* A call of login, signup or unlock carries, as history, the keys the
\* vault had when it was made (had).
\* login, up to the await of signInWithEmailAndPassword
loginStart(i, password) ==
    /\ calls[i] = Idle
    /\ authError' = Null
    /\ calls' = [calls EXCEPT ![i] = [op |-> "login", pc |-> "signIn", password |-> password,
                                        had |-> <<encryptionKey, signingKey>>]]
    /\ UNCHANGED <<user, encryptionKey, signingKey, authUser>>
    /\ UNCHANGED holdsVars

\* unlock, up to the await of signInWithEmailAndPassword; it throws at once
\* without a user
unlockStart(i, password) ==
    /\ calls[i] = Idle
    /\ IF user = NoUser
       THEN UNCHANGED <<authError, calls>>
       ELSE /\ authError' = Null
            /\ calls' = [calls EXCEPT ![i] = [op |-> "unlock", pc |-> "signIn",
                                              password |-> password, uid |-> user.uid,
                                              had |-> <<encryptionKey, signingKey>>]]
    /\ UNCHANGED <<user, encryptionKey, signingKey, authUser>>
    /\ UNCHANGED holdsVars

\* signInWithEmailAndPassword resolves: the service has signed the user in
\* (which passwords it accepts is the service's own state)
signInResolves(i) ==
    /\ calls[i].pc = "signIn"
    /\ authUser' = TheUser
    /\ calls' = [calls EXCEPT ![i] =
                    [op |-> calls[i].op, pc |-> "deriveKey", password |-> calls[i].password,
                     uid |-> IF calls[i].op = "unlock" THEN calls[i].uid ELSE TheUser.uid,
                     had |-> calls[i].had]]
    /\ UNCHANGED <<user, encryptionKey, signingKey, authError>>
    /\ UNCHANGED holdsVars

\* the catch block of login and signup (getErrorMessage of the code the
\* service rejects with) and of unlock
CatchMessage(op) ==
    IF op = "unlock" THEN JStr("Incorrect password")
    ELSE IF op = "signup" THEN JStr("This email is already registered")
    ELSE JStr("Invalid email or password")

\* signInRejects with the catch block left out: the call goes on to derive
signInRejectsDerives(i) ==
    /\ calls[i].pc = "signIn"
    /\ authError' = CatchMessage(calls[i].op)
    /\ calls' = [calls EXCEPT ![i] =
                    [op |-> calls[i].op, pc |-> "deriveKey", password |-> calls[i].password,
                     uid |-> IF calls[i].op = "unlock" THEN calls[i].uid ELSE TheUser.uid,
                     had |-> calls[i].had]]
    /\ UNCHANGED <<user, encryptionKey, signingKey, authUser>>
    /\ UNCHANGED holdsVars

\* signInWithEmailAndPassword rejects: the catch block sets the error and
\* rethrows
signInRejects(i) ==
    /\ calls[i].pc = "signIn"
    /\ authError' = CatchMessage(calls[i].op)
    /\ calls' = [calls EXCEPT ![i] = Idle]
    /\ UNCHANGED <<user, encryptionKey, signingKey, authUser>>
    /\ UNCHANGED holdsVars

\* signup, up to the await of createUserWithEmailAndPassword
signupStart(i, password) ==
    /\ calls[i] = Idle
    /\ authError' = Null
    /\ calls' = [calls EXCEPT ![i] = [op |-> "signup", pc |-> "createUser", password |-> password,
                                        had |-> <<encryptionKey, signingKey>>]]
    /\ UNCHANGED <<user, encryptionKey, signingKey, authUser>>
    /\ UNCHANGED holdsVars

\* createUserWithEmailAndPassword resolves: the service has created the
\* account and signed its user in
createUserResolves(i) ==
    /\ calls[i].pc = "createUser"
    /\ authUser' = TheUser
    /\ calls' = [calls EXCEPT ![i] =
                    [op |-> "signup", pc |-> "deriveKey", password |-> calls[i].password,
                     uid |-> TheUser.uid, had |-> calls[i].had]]
    /\ UNCHANGED <<user, encryptionKey, signingKey, authError>>
    /\ UNCHANGED holdsVars

\* createUserWithEmailAndPassword rejects: the catch block sets the error
\* and rethrows
createUserRejects(i) ==
    /\ calls[i].pc = "createUser"
    /\ authError' = CatchMessage("signup")
    /\ calls' = [calls EXCEPT ![i] = Idle]
    /\ UNCHANGED <<user, encryptionKey, signingKey, authUser>>
    /\ UNCHANGED holdsVars

\* a deriveKeys that sets the encryption key as soon as it is derived
deriveKeyResolvesSets(i) ==
    /\ calls[i].pc = "deriveKey"
    /\ encryptionKey' = deriveKey(calls[i].password, calls[i].uid)
    /\ calls' = [calls EXCEPT ![i] =
                    [op |-> calls[i].op, pc |-> "deriveSigningKey",
                     password |-> calls[i].password, uid |-> calls[i].uid,
                     encKey |-> deriveKey(calls[i].password, calls[i].uid),
                     had |-> calls[i].had]]
    /\ UNCHANGED <<user, signingKey, authError, authUser>>
    /\ UNCHANGED holdsVars

\* deriveKeys: await deriveKey(password, uid) resolves
deriveKeyResolves(i) ==
    /\ calls[i].pc = "deriveKey"
    /\ calls' = [calls EXCEPT ![i] =
                    [op |-> calls[i].op, pc |-> "deriveSigningKey",
                     password |-> calls[i].password, uid |-> calls[i].uid,
                     encKey |-> deriveKey(calls[i].password, calls[i].uid),
                     had |-> calls[i].had]]
    /\ UNCHANGED <<user, encryptionKey, signingKey, authError, authUser>>
    /\ UNCHANGED holdsVars

\* deriveKeys: await deriveSigningKey(password, uid) resolves, both keys are
\* set and deriveKeys returns: login and unlock return, signup goes on to
\* the await of updateProfile
deriveKeys(i) ==
    /\ calls[i].pc = "deriveSigningKey"
    /\ encryptionKey' = calls[i].encKey
    /\ signingKey' = deriveSigningKey(calls[i].password, calls[i].uid)
    /\ calls' = [calls EXCEPT ![i] =
                    IF calls[i].op = "signup"
                    THEN [op |-> "signup", pc |-> "updateProfile", uid |-> calls[i].uid,
                          had |-> calls[i].had]
                    ELSE Idle]
    /\ UNCHANGED <<user, authError, authUser>>
    /\ UNCHANGED holdsVars

\* a derivation rejects (crypto.subtle): the catch block sets the error and
\* rethrows
deriveRejects(i) ==
    /\ calls[i].pc \in {"deriveKey", "deriveSigningKey"}
    /\ authError' = IF calls[i].op = "unlock" THEN JStr("Incorrect password")
                    ELSE JStr("An error occurred. Please try again")
    /\ calls' = [calls EXCEPT ![i] = Idle]
    /\ UNCHANGED <<user, encryptionKey, signingKey, authUser>>
    /\ UNCHANGED holdsVars

\* signup: await updateProfile resolves
updateProfileResolves(i) ==
    /\ calls[i].pc = "updateProfile"
    /\ calls' = [calls EXCEPT ![i] = [op |-> "signup", pc |-> "setDoc", uid |-> calls[i].uid,
                                      had |-> calls[i].had]]
    /\ UNCHANGED <<user, encryptionKey, signingKey, authError, authUser>>
    /\ UNCHANGED holdsVars

\* signup: await setDoc of the users document resolves and signup returns
setDocResolves(i) ==
    /\ calls[i].pc = "setDoc"
    /\ calls' = [calls EXCEPT ![i] = Idle]
    /\ UNCHANGED <<user, encryptionKey, signingKey, authError, authUser>>
    /\ UNCHANGED holdsVars

\* signup: updateProfile or setDoc rejects; the catch block sets the error
\* and rethrows, the keys set by deriveKeys stay
profileRejects(i) ==
    /\ calls[i].pc \in {"updateProfile", "setDoc"}
    /\ authError' = JStr("An error occurred. Please try again")
    /\ calls' = [calls EXCEPT ![i] = Idle]
    /\ UNCHANGED <<user, encryptionKey, signingKey, authUser>>
    /\ UNCHANGED holdsVars

\* the state of the vault as the spec names it
VaultState ==
    IF user = NoUser THEN "LoggedOut"
    ELSE IF encryptionKey = NoKey THEN "LoggedInLocked" ELSE "Unlocked"

\* logout, up to the await of signOut
logoutStart(i) ==
    /\ calls[i] = Idle
    /\ authError' = Null
    /\ calls' = [calls EXCEPT ![i] = [op |-> "logout", pc |-> "signOut", from |-> VaultState]]
    /\ UNCHANGED <<user, encryptionKey, signingKey, authUser>>
    /\ UNCHANGED holdsVars

\* signOut resolves: logout clears both keys and returns
signOutResolves(i) ==
    /\ calls[i].pc = "signOut"
    /\ authUser' = NoUser
    /\ encryptionKey' = NoKey
    /\ signingKey' = NoKey
    /\ calls' = [calls EXCEPT ![i] = Idle]
    /\ UNCHANGED <<user, authError>>
    /\ UNCHANGED holdsVars

\* signOut rejects: the catch block sets the error and rethrows
signOutRejects(i) ==
    /\ calls[i].pc = "signOut"
    /\ authError' = JStr("Failed to log out")
    /\ calls' = [calls EXCEPT ![i] = Idle]
    /\ UNCHANGED <<user, encryptionKey, signingKey, authUser>>
    /\ UNCHANGED holdsVars

\* a listener that installs keys of its own for the user reported
onAuthStateChangedUnlocks ==
    /\ user # authUser
    /\ user' = authUser
    /\ IF authUser = NoUser
       THEN encryptionKey' = NoKey /\ signingKey' = NoKey
       ELSE /\ encryptionKey' = deriveKey("p1", authUser.uid)
            /\ signingKey' = deriveSigningKey("p1", authUser.uid)
    /\ UNCHANGED <<authError, calls, authUser>>
    /\ UNCHANGED holdsVars

\* the auth-state listener, called by the service when its user changed
onAuthStateChanged ==
    /\ user # authUser
    /\ user' = authUser
    /\ IF authUser = NoUser
       THEN encryptionKey' = NoKey /\ signingKey' = NoKey
       ELSE UNCHANGED <<encryptionKey, signingKey>>
    /\ UNCHANGED <<authError, calls, authUser>>
    /\ UNCHANGED holdsVars

\* a page load: nobody signed in, or a session the service has persisted
InitAuth ==
    /\ user = NoUser
    /\ encryptionKey = NoKey
    /\ signingKey = NoKey
    /\ authError = Null
    /\ calls = [i \in CallSlots |-> Idle]
    /\ authUser \in {NoUser, TheUser}
    /\ db = [i \in HoldIds |-> Absent]
    /\ holds = <<>>
    /\ error = Null
    /\ tampers = 0
    /\ nextIv = 1
    /\ clock = 0
    /\ last = NoCall
    /\ written = [i \in HoldIds |-> Absent]
    /\ st = [pc |-> "off"]
    /\ benchmarks = {}
    /\ pending = << >>
    /\ latest = NoSnapshot
    /\ storage = << >>
    /\ uploads = << >>
    /\ url = [none |-> TRUE]

NextAuth ==
    \/ \E i \in CallSlots, password \in Passwords : loginStart(i, password)
    \/ \E i \in CallSlots, password \in Passwords : unlockStart(i, password)
    \/ \E i \in CallSlots : signInResolves(i)
    \/ \E i \in CallSlots : signInRejects(i)
    \/ \E i \in CallSlots, password \in Passwords : signupStart(i, password)
    \/ \E i \in CallSlots : createUserResolves(i)
    \/ \E i \in CallSlots : createUserRejects(i)
    \/ \E i \in CallSlots : updateProfileResolves(i)
    \/ \E i \in CallSlots : setDocResolves(i)
    \/ \E i \in CallSlots : profileRejects(i)
    \/ \E i \in CallSlots : deriveKeyResolves(i)
    \/ \E i \in CallSlots : deriveKeys(i)
    \/ \E i \in CallSlots : deriveRejects(i)
    \/ \E i \in CallSlots : logoutStart(i)
    \/ \E i \in CallSlots : signOutResolves(i)
    \/ \E i \in CallSlots : signOutRejects(i)
    \/ onAuthStateChanged

SpecAuth == InitAuth /\ [][NextAuth]_vars

\* C10: every logout call started from Unlocked or LoggedInLocked leaves
\* both keys null when it returns or throws, whether signOut resolved or
\* rejected (stated for the calls that run with no other call in flight)
C10_LogoutDiscardsKeys ==
    [][\A i \in CallSlots :
          (/\ calls[i].pc = "signOut"
           /\ calls[i].from \in {"Unlocked", "LoggedInLocked"}
           /\ calls'[i] = Idle
           /\ \A j \in CallSlots \ {i} : calls[j] = Idle)
              => (encryptionKey' = NoKey /\ signingKey' = NoKey)]_vars

\* the calls that are inside deriveKeys, between its first await and the
\* setting of the keys
Deriving == {i \in CallSlots : calls[i].pc \in {"deriveKey", "deriveSigningKey"}}

\* C11: at most one key derivation is in flight at any time: a login or
\* unlock called while an earlier derivation has not finished is rejected
\* or waits, so two calls are never inside deriveKeys together
C11_OneDerivationInFlight == Cardinality(Deriving) <= 1

\* a call enters deriveKeys in this step
StartsDeriving(i) == calls[i].pc # "deriveKey" /\ calls'[i].pc = "deriveKey"

\* C12: a call of login, signup or unlock starts deriving only in the step
\* in which its own authentication request resolved, with the service
\* holding the signed-in user whose uid the derivation uses; and keys are
\* installed only by a call that is deriving, so no step takes the vault to
\* held keys without an authentication before it
C12_DeriveOnlyAfterAuthentication ==
    [][/\ \A i \in CallSlots :
             StartsDeriving(i) =>
                 /\ calls[i].pc \in {"signIn", "createUser"}
                 /\ authUser' # NoUser
                 /\ calls'[i].uid = authUser'.uid
       /\ (encryptionKey' # encryptionKey /\ encryptionKey' # NoKey) =>
             \E i \in Deriving : Deriving' = Deriving \ {i}]_vars

\* C12 happens: the vault is unlocked by keys a call derived, and an unlock
\* call is deriving again after its re-authentication
C12_Witness ==
    /\ VaultState = "Unlocked"
    /\ \E i \in CallSlots : calls[i].pc = "deriveKey" /\ calls[i].op = "unlock"

(***************************************************************************)
(* What the write path sends (Spec).                                       *)
(***************************************************************************)
\* the values a document holds in the places of the sensitive fields
SensitiveValues(doc) ==
    {Get(doc, k) : k \in {"title", "counterparty", "notes", "category", "status",
                          "startDate", "expectedResolutionDays", "createdAt"}}
    \cup UNION {{Get(a, "name"), Get(a, "originalName"), Get(a, "type")} :
                    a \in Range(ElemsOr(Get(doc, "attachments")))}
    \cup {Get(f, "message") : f \in Range(ElemsOr(Get(doc, "followUps")))}
    \cup (IF Truthy(Get(doc, "resolution")) THEN {Get(Get(doc, "resolution"), "notes")}
          ELSE {})

\* C13: in the document the last addHold or updateHold wrote, every
\* sensitive field (title, counterparty, notes, category, status, start
\* date, expected days, creation time, attachment name / originalName /
\* type, follow-up message, resolution notes) is an envelope or null
C13_WrittenFieldsEncrypted ==
    last.ok => \A v \in SensitiveValues(written[last.id]) : v = Null \/ isEncryptedData(v)

\* C13 happens: an updateHold wrote a record with notes, an attachment and
\* a follow-up
C13_Witness ==
    /\ last.ok
    /\ last.op = "updateHold"
    /\ Get(written[last.id], "notes") # Null
    /\ ElemsOr(Get(written[last.id], "attachments")) # << >>
    /\ ElemsOr(Get(written[last.id], "followUps")) # << >>

\* C15: an updateHold that reached the store sent every field of the
\* signing field set and the signature, every envelope it wrote has an IV
\* that the stored document did not have, the signature verifies against
\* the fields written, and it is not the signature that was stored before
C15_UpdateWritesWholeRecord ==
    (last.ok /\ last.op \in {"updateHold", "updateStatus", "resolveHold"})
        => LET d == written[last.id]
               ivs(doc) == {Get(v, "iv") : v \in {x \in SensitiveValues(doc) : isEncryptedData(x)}}
           IN  /\ Range(ObjectKeys(getHoldSigningData(d))) \cup {"_signature"} \subseteq last.sent
               /\ ivs(d) \cap ivs(last.prev) = {}
               /\ Verifies(d, last.signKey)
               /\ Get(d, "_signature") # Get(last.prev, "_signature")

\* C14: nothing the client has written to the store, in 'holds' or in
\* 'public_benchmarks', holds a hold's category, status or one of its dates
\* (start date, creation time, resolution date) as a plaintext value
C14_NoPlaintextMetadata ==
    /\ \A id \in HoldIds :
          written[id] # Absent =>
              /\ \A k \in {"category", "status", "startDate", "createdAt"} :
                    isEncryptedData(Get(written[id], k))
              /\ Truthy(Get(written[id], "resolution")) =>
                    Get(Get(written[id], "resolution"), "date").t \notin {"timestamp", "date"}
    /\ \A b \in benchmarks : ~ IsString(Get(b, "category"))

(***************************************************************************)
(* SpecSnap: HoldsProvider with the onSnapshot callback in its two parts.  *)
(* The listener receives a snapshot and starts docToHold of every          *)
(* document; the callback goes on after await Promise.all, at its own      *)
(* time, with the sort and setHolds.  The session starts with one record   *)
(* in the store, written in an earlier session under the first password.   *)
(***************************************************************************)
\* the onSnapshot callbacks in flight at one time, and the snapshots of a run
MaxPending == 2
MaxSnapshots == 2

\* the listener receives a snapshot of the query: the callback starts, with
\* the docToHold of the subscription (the keys held now)
snapshotArrives ==
    /\ user # NoUser
    /\ Len(pending) < MaxPending
    /\ latest.n < MaxSnapshots
    /\ LET snapshot == [n |-> latest.n + 1,
                        docs |-> [k \in DOMAIN QueryDocs |->
                                    [id |-> QueryDocs[k], data |-> db[QueryDocs[k]]]],
                        encKey |-> encryptionKey, signKey |-> signingKey]
       IN  /\ pending' = Append(pending, snapshot)
           /\ latest' = snapshot
    /\ UNCHANGED <<user, encryptionKey, signingKey, authError, calls, authUser, db, holds,
                   error, tampers, nextIv, clock, last, written, st, benchmarks,
                   storage, uploads, url>>

\* the callback of snapshot pending[k] goes on after await Promise.all
snapshotDone(k) ==
    /\ k \in DOMAIN pending
    /\ LET docs == pending[k].docs
           threw == \E n \in DOMAIN docs :
                        docToHoldThrows(docs[n].data, pending[k].encKey, pending[k].signKey)
           holdsData == [n \in DOMAIN docs |->
                            docToHold(docs[n].id, docs[n].data, pending[k].encKey,
                                      pending[k].signKey, clock)]
       IN  IF threw
           THEN /\ error' = JStr("Failed to decrypt holds")
                /\ holds' = holds
           ELSE /\ holds' \in Sorted(holdsData)
                /\ error' = Null
    /\ pending' = [j \in 1 .. Len(pending) - 1 |-> IF j < k THEN pending[j] ELSE pending[j + 1]]
    /\ UNCHANGED <<user, encryptionKey, signingKey, authError, calls, authUser, db,
                   tampers, nextIv, clock, last, written, st, benchmarks, latest, storage, uploads, url>>

InitSnap ==
    /\ user = NoUser
    /\ encryptionKey = NoKey
    /\ signingKey = NoKey
    /\ authError = Null
    /\ calls = <<>>
    /\ authUser = NoUser
    /\ \E newHold \in NewHolds :
          LET stored == addHoldDoc(newHold, UidString(U1), deriveKey("p1", U1),
                                   deriveSigningKey("p1", U1), 1, 0)
          IN  /\ db = [i \in HoldIds |-> IF i = 1 THEN stored ELSE Absent]
              /\ written = db
              /\ nextIv = 1 + addHoldIvs(newHold)
    /\ holds = <<>>
    /\ error = Null
    /\ tampers = 0
    /\ clock = 0
    /\ last = NoCall
    /\ st = [pc |-> "off"]
    /\ benchmarks = {}
    /\ pending = << >>
    /\ latest = NoSnapshot
    /\ storage = << >>
    /\ uploads = << >>
    /\ url = [none |-> TRUE]

NextSnap ==
    \/ sessionRestored
    \/ \E password \in Passwords : login(password)
    \/ logout
    \/ snapshotArrives
    \/ \E k \in 1 .. MaxPending : snapshotDone(k)
    \/ \E id \in HoldIds, updates \in Updates : updateHold(id, updates)

SpecSnap == InitSnap /\ [][NextSnap]_vars

\* C16: an updateHold that reaches the store has merged its updates into
\* the hold that docToHold makes of record id as the latest snapshot
\* received holds it, not into an older version in the list (stated for
\* the calls where the copy in the list and the record of the latest
\* snapshot both read decrypted and unflagged)
C16_MergesIntoLatestSnapshot ==
    [][(last' # last /\ last'.op = "updateHold") =>
          LET id == last'.id
              hold == holds[CHOOSE i \in FindHold(id) : TRUE]
              clean(h) == h.title \notin {ENCRYPTED, DECRYPTION_FAILED} /\ ~ h._isTampered
          IN  \A n \in DOMAIN latest.docs :
                  LET received == docToHold(id, latest.docs[n].data, latest.encKey,
                                            latest.signKey, clock)
                  IN  (latest.docs[n].id = id /\ clean(hold) /\ clean(received))
                          => hold = received]_vars

C18_ReorderingAccepted ==
    (st.pc = "verified" /\ st.how = "reorder") => st.verdict

\* C18 happens: the signed record of a hold was verified with its fields
\* in another order
C18_Witness ==
    /\ st.pc = "verified"
    /\ st.how = "reorder"
    /\ ObjectKeys(st.M) # ObjectKeys(st.R)
    /\ Len(ObjectKeys(st.R)) > MaxPermuted

\* C19: a record verifies under the signature signRecord made of it with
\* the same key
C19_SignedRecordVerifies ==
    (st.pc = "verified" /\ st.how = "same") => st.verdict

\* C19 happens: the record of the test was signed and verified unchanged
C19_Witness ==
    /\ st.pc = "verified"
    /\ st.how = "same"
    /\ st.R = TestRecord
    /\ st.sig = signRecord(TestRecord, st.K)

\* C20: decryptValue of what encryptValue made of a text, under the same
\* key, does not throw and returns that text
C20_EncryptDecryptRoundTrip ==
    st.pc = "decrypted" => (~ st.threw /\ st.out = st.V)

(***************************************************************************)
(* Properties of the vault (SpecAuth).                                     *)
(***************************************************************************)
\* C21: two calls that have derived the encryption key from the same
\* password and uid hold the same key, whenever each of them derived it;
\* the signing key derived from a password and uid has other key bits than
\* the encryption key derived from them, in a call and in the vault
C21_DerivationDeterministicDistinct ==
    /\ \A i, j \in CallSlots :
          (/\ calls[i].pc = "deriveSigningKey"
           /\ calls[j].pc = "deriveSigningKey"
           /\ calls[i].password = calls[j].password
           /\ calls[i].uid = calls[j].uid) => calls[i].encKey = calls[j].encKey
    /\ \A i \in CallSlots :
          calls[i].pc = "deriveSigningKey" =>
              calls[i].encKey.bits # deriveSigningKey(calls[i].password, calls[i].uid).bits
    /\ (encryptionKey # NoKey /\ signingKey # NoKey) => encryptionKey.bits # signingKey.bits

\* C21 happens: the vault holds derived keys and two calls have derived
\* the encryption key from one password, one after the other
C21_Witness ==
    /\ encryptionKey # NoKey
    /\ signingKey # NoKey
    /\ \E i, j \in CallSlots :
          /\ i # j
          /\ calls[i].pc = "deriveSigningKey"
          /\ calls[j].pc = "deriveSigningKey"
          /\ calls[i].password = calls[j].password

(***************************************************************************)
(* More properties of the write and read paths (Spec).                     *)
(***************************************************************************)
\* C22: no two envelopes the client has written share an IV: taken over
\* every place of an encrypted field in the documents as last written and
\* in the document the last write replaced, the IV determines the place
\* (so an unchanged field is written again under another IV)
C22_NoIvReuse ==
    LET docs == [n \in 1 .. MaxWrites + 1 |-> IF n <= MaxWrites THEN written[n] ELSE last.prev]
        atts(d) == ElemsOr(Get(d, "attachments"))
        fus(d) == ElemsOr(Get(d, "followUps"))
        places(d) ==
            IF d = Absent THEN {}
            ELSE {<<"field", 0, k>> : k \in {"title", "counterparty", "notes", "category",
                                             "status", "startDate",
                                             "expectedResolutionDays", "createdAt"}}
                 \cup {<<"attachment", j, k>> : j \in DOMAIN atts(d),
                                                k \in {"name", "originalName", "type"}}
                 \cup {<<"followUp", j, "message">> : j \in DOMAIN fus(d)}
                 \cup {<<"resolution", 0, "notes">>}
        at(d, p) == CASE p[1] = "field" -> Get(d, p[3])
                      [] p[1] = "attachment" -> Get(atts(d)[p[2]], p[3])
                      [] p[1] = "followUp" -> Get(fus(d)[p[2]], p[3])
                      [] OTHER -> Get(Get(d, "resolution"), p[3])
        envelopes == {<<n, p>> \in UNION {{<<m, q>> : q \in places(docs[m])} : m \in DOMAIN docs} :
                         isEncryptedData(at(docs[n], p))}
    IN  \A x, y \in envelopes :
            x # y => Get(at(docs[x[1]], x[2]), "iv") # Get(at(docs[y[1]], y[2]), "iv")

\* C22 happens: an updateHold has written again a record with an
\* attachment, its title not among the fields changed
C22_Witness ==
    /\ last.ok
    /\ last.op = "updateHold"
    /\ "title" \notin last.changed
    /\ ElemsOr(Get(written[last.id], "attachments")) # << >>
    /\ isEncryptedData(Get(last.prev, "title"))

\* the key material addHold and updateHold require
KeyMaterialHeld == user # NoUser /\ encryptionKey # NoKey /\ signingKey # NoKey

\* C23: while a key or the user is missing every updateHold rejects at its
\* guard, and no step made in that condition writes a document for the
\* client or completes a write call
C23_NoWriteWithoutKeys ==
    [][/\ ~ KeyMaterialHeld =>
              \A id \in HoldIds : \A updates \in Updates : UpdateHoldFails(id, updates)
       /\ (written' # written \/ last' # last \/ nextIv' # nextIv) => KeyMaterialHeld]_vars

\* C23 happens: the vault is locked while the list shows a stored record,
\* so that an updateHold gets as far as its guard and no further
C23_Witness ==
    /\ isLocked
    /\ signingKey = NoKey
    /\ clock < MaxWrites
    /\ \E id \in HoldIds : db[id] # Absent /\ FindHold(id) # {}

\* C24: a record the store returns as the client wrote it, read under keys
\* other than the keys it was written with, makes docToHold throw nothing
\* and is shown as locked: not flagged _isTampered, its title the locked
\* placeholder
C24_WrongKeysReadAsLocked ==
    \A id \in HoldIds :
        (/\ written[id] # Absent
         /\ db[id] = written[id]
         /\ encryptionKey # NoKey
         /\ signingKey # NoKey
         /\ isEncryptedData(Get(db[id], "title"))
         /\ Get(Get(db[id], "title"), "ciphertext").ct.k # encryptionKey)
            => /\ ~ docToHoldThrows(db[id], encryptionKey, signingKey)
               /\ ~ Read(id)._isTampered
               /\ Read(id).title = ENCRYPTED

\* C25: docToHold of a stored document under the keys held returns the
\* same hold whenever it is called (at any time now)
C25_DocToHoldIdempotent ==
    \A id \in HoldIds :
        db[id] # Absent =>
            \A now \in 0 .. MaxWrites :
                docToHold(id, db[id], encryptionKey, signingKey, now) = Read(id)

(***************************************************************************)
(* More properties of the vault (SpecAuth).                                *)
(***************************************************************************)
\* C26: when the listener reports a user while no call of login, signup or
\* unlock has been made or is in flight (no user, no key, no error, every
\* call idle), the vault becomes LoggedInLocked: user set, both keys null,
\* isLocked true, and no call is started or deriving
C26_RestoredSessionLocked ==
    [][(/\ user = NoUser
        /\ user' # NoUser
        /\ encryptionKey = NoKey
        /\ signingKey = NoKey
        /\ authError = Null
        /\ \A i \in CallSlots : calls[i] = Idle)
           => /\ VaultState' = "LoggedInLocked"
              /\ user' = authUser
              /\ encryptionKey' = NoKey
              /\ signingKey' = NoKey
              /\ isLocked'
              /\ Deriving' = {}
              /\ calls' = calls]_vars

\* C26 happens: the listener has reported the user of a persisted session
\* and nothing else has run
C26_Witness ==
    /\ VaultState = "LoggedInLocked"
    /\ authUser = TheUser
    /\ authError = Null
    /\ signingKey = NoKey
    /\ \A i \in CallSlots : calls[i] = Idle

(***************************************************************************)
(* Attachments (SpecFiles): the form of the Dashboard uploads files and    *)
(* submits them with a new hold, the page of a hold downloads them, and    *)
(* deleteHold deletes the hold.                                            *)
(***************************************************************************)
\* the files uploaded in one run
MaxUploads == 1

\* the File objects picked in the form: name, type and arrayBuffer()
Files ==
    { [name |-> JStr("report.pdf"), type |-> JStr("application/pdf"),
       bytes |-> [t |-> "bytes", raw |-> <<37, 80>>]],
      [name |-> JStr("photo.png"), type |-> JStr("image/png"),
       bytes |-> [t |-> "bytes", raw |-> <<137>>]] }

\* an uploadAttachment whose metadata keeps an IV other than the one used
uploadAttachmentOtherIv(file, holdId, uid, key, iv, fileId, now) ==
    LET encrypted == encryptBuffer(file.bytes, key, iv)
        storagePath == [t |-> "string", path |-> <<uid, holdId, fileId>>]
    IN  [storagePath |-> storagePath,
         encryptedBlob |-> [t |-> "blob", ct |-> Get(encrypted, "ciphertext").ct],
         attachment |-> JObj([id |-> [t |-> "string", uuid |-> fileId],
                              originalName |-> file.name, name |-> file.name,
                              type |-> file.type, size |-> JNum(Len(file.bytes.raw) + 16),
                              storagePath |-> storagePath, iv |-> IvString(iv + 1),
                              uploadedAt |-> JDate(now)])]

\* uploadAttachment with the IV and the UUID drawn: the path and the blob
\* (atob of the Base64 ciphertext, as bytes) it uploads, and the metadata
\* it returns
uploadAttachment(file, holdId, uid, key, iv, fileId, now) ==
    LET encrypted == encryptBuffer(file.bytes, key, iv)
        storagePath == [t |-> "string", path |-> <<uid, holdId, fileId>>]
    IN  [storagePath |-> storagePath,
         encryptedBlob |-> [t |-> "blob", ct |-> Get(encrypted, "ciphertext").ct],
         attachment |-> JObj([id |-> [t |-> "string", uuid |-> fileId],
                              originalName |-> file.name, name |-> file.name,
                              type |-> file.type, size |-> JNum(Len(file.bytes.raw) + 16),
                              storagePath |-> storagePath, iv |-> Get(encrypted, "iv"),
                              uploadedAt |-> JDate(now)])]

\* handleFileUpload of the Dashboard; the draft id of the form is drawn when
\* the form is mounted, the file id by every upload
handleFileUpload(file) ==
    /\ IF user = NoUser \/ encryptionKey = NoKey
       THEN UNCHANGED <<storage, uploads, nextIv>>
       ELSE /\ Cardinality(DOMAIN storage) < MaxUploads
            /\ LET up == uploadAttachment(file, clock, user.uid, encryptionKey, nextIv,
                                          Cardinality(DOMAIN storage) + 1, clock)
               IN  /\ storage' = [p \in DOMAIN storage \cup {up.storagePath} |->
                                     IF p = up.storagePath THEN up.encryptedBlob
                                     ELSE storage[p]]
                   /\ uploads' = Append(uploads, up.attachment)
            /\ nextIv' = nextIv + 1
    /\ UNCHANGED <<user, encryptionKey, signingKey, authError, calls, authUser, db, holds,
                   error, tampers, clock, last, written, st, benchmarks, pending, latest,
                   url>>

\* handleSubmit of the Dashboard: addHold with the uploads of the form
handleSubmit(newHold) ==
    AddHoldCall([newHold EXCEPT !.attachments = JArr(uploads)], TRUE)

\* downloadAttachment: getBytes, btoa of the bytes, decryptBuffer with the
\* iv of the metadata; the Blob behind the URL it returns, or a throw
downloadAttachment(attachment, key) ==
    LET storagePath == Get(attachment, "storagePath")
        data == JObj([ciphertext |-> [t |-> "string", ct |-> storage[storagePath].ct],
                      iv |-> Get(attachment, "iv")])
    IN  IF storagePath \notin DOMAIN storage THEN [threw |-> TRUE]
        ELSE IF decryptThrows(data, key) THEN [threw |-> TRUE]
        ELSE [threw |-> FALSE, blob |-> decryptBuffer(data, key),
              type |-> Get(attachment, "type")]

\* handleDownload of the page of a hold, for an attachment the hold lists
handleDownload(attachment) ==
    /\ IF encryptionKey = NoKey
       THEN UNCHANGED url
       ELSE url' = [attachment |-> attachment, key |-> encryptionKey]
                   @@ downloadAttachment(attachment, encryptionKey)
    /\ UNCHANGED <<user, encryptionKey, signingKey, authError, calls, authUser, db, holds,
                   error, tampers, nextIv, clock, last, written, st, benchmarks, pending,
                   latest, storage, uploads>>

NextFiles ==
    \/ \E password \in Passwords : login(password)
    \/ logout
    \/ \E file \in Files : handleFileUpload(file)
    \/ \E newHold \in NewHolds : handleSubmit(newHold)
    \/ onSnapshot
    \/ \E hold \in Range(holds) : \E attachment \in Range(hold.attachments.a) :
            handleDownload(attachment)
    \/ \E id \in HoldIds : deleteHold(id)

SpecFiles == Init /\ [][NextFiles]_vars

\* C27: every stored object is a ciphertext blob; the iv in the metadata of
\* an upload of the form or of a written document is the IV of the object
\* at its path; and a download with the key the object was encrypted
\* under throws nothing and gives the bytes that were encrypted, which are
\* the bytes of the file whose name the attachment carries
C27_AttachmentRoundTrip ==
    LET listed == Range(uploads) \cup
                  UNION {Range(ElemsOr(Get(written[id], "attachments"))) :
                            id \in {i \in HoldIds : written[i] # Absent}}
    IN  /\ \A p \in DOMAIN storage : storage[p].t = "blob" /\ storage[p].ct.pt \in
                                                                {f.bytes : f \in Files}
        /\ \A att \in listed :
              /\ Get(att, "storagePath") \in DOMAIN storage
              /\ Get(att, "iv") = IvString(storage[Get(att, "storagePath")].ct.iv)
        /\ ("attachment" \in DOMAIN url
              /\ url.key = storage[Get(url.attachment, "storagePath")].ct.k)
             => /\ ~ url.threw
                /\ url.blob = storage[Get(url.attachment, "storagePath")].ct.pt
                /\ \A f \in Files : Get(url.attachment, "name") = f.name => url.blob = f.bytes

\* C27 happens: an attachment of a hold read in clear has been downloaded
\* with the key it was uploaded under
C27_Witness ==
    /\ "attachment" \in DOMAIN url
    /\ ~ url.threw
    /\ \E f \in Files : Get(url.attachment, "name") = f.name /\ url.blob = f.bytes

\* C28: a step that deletes the document of a hold leaves no object in the
\* remote storage at a path the attachments of that document name
C28_DeleteLeavesNothing ==
    [][\A id \in HoldIds :
          (db[id] # Absent /\ db'[id] = Absent) =>
              \A att \in Range(ElemsOr(Get(db[id], "attachments"))) :
                  Get(att, "storagePath") \notin DOMAIN storage']_vars

\* C29: a call of login, signup or unlock that reports failure (its catch
\* block sets the error and rethrows) while no other call is in flight
\* leaves both keys as they were when the call was made
C29_FailedCallKeepsKeys ==
    [][\A i \in CallSlots :
          (/\ calls[i] # Idle
           /\ calls[i].op \in {"login", "signup", "unlock"}
           /\ calls'[i] = Idle
           /\ authError = Null
           /\ authError' # Null
           /\ \A j \in CallSlots \ {i} : calls[j] = Idle)
              => <<encryptionKey', signingKey'>> = calls[i].had]_vars

\* C30: in every state in which the listener has reported the user the
\* service holds (no auth-state change is still to be delivered), key
\* material is held only while a user is authenticated: encryptionKey or
\* signingKey non-null implies user non-null
C30_KeysOnlyWithUser ==
    (user = authUser /\ (encryptionKey # NoKey \/ signingKey # NoKey)) => user # NoUser

\* C31: in every state in which key material is held and the listener has
\* reported the user the service holds, there is a user, and both keys are
\* the keys of one password derived with the uid of that user
C31_KeysOfCurrentUser ==
    (user = authUser /\ (encryptionKey # NoKey \/ signingKey # NoKey)) =>
        /\ user # NoUser
        /\ \E password \in Passwords :
              /\ encryptionKey = deriveKey(password, user.uid)
              /\ signingKey = deriveSigningKey(password, user.uid)

\* C32: encryptionKey and signingKey are both null or both non-null in
\* every state, whatever the calls in flight have derived so far
C32_BothKeysOrNone == (encryptionKey = NoKey) <=> (signingKey = NoKey)

\* C32 happens: a call has derived its encryption key and awaits the
\* signing key while the vault holds no key, and an earlier derivation of
\* this session was rejected
C32_Witness ==
    /\ encryptionKey = NoKey
    /\ authError = JStr("An error occurred. Please try again")
    /\ \E i \in CallSlots : calls[i].pc = "deriveSigningKey"

(***************************************************************************)
(* Properties of the subscription (SpecSnap).                              *)
(***************************************************************************)
\* C33: while no user is logged in the holds list shows no decrypted hold
\* (the claim says more: that it is empty): a callback whose decryption
\* was in flight at the logout puts no decrypted hold into it
C33_NoHoldsAfterLogout ==
    user = NoUser =>
        \A i \in DOMAIN holds : holds[i].title \in {ENCRYPTED, TAMPERED, DECRYPTION_FAILED}

\* C34: a callback that finishes and changes the holds list belongs to the
\* most recently received snapshot, or that snapshot is still being
\* processed (and will set the list after it): the result of an older
\* snapshot never replaces the result of the latest one (stated for the
\* callbacks that had keys, whose docToHold awaits the crypto operations)
C34_LatestSnapshotWins ==
    [][\A k \in DOMAIN pending :
          (/\ Len(pending') = Len(pending) - 1
           /\ pending[k].encKey # NoKey
           /\ \A j \in DOMAIN pending' : pending'[j] # pending[k]
           /\ holds' # holds)
              => \/ pending[k].n = latest.n
                 \/ \E j \in DOMAIN pending : pending[j].n = latest.n]_vars

\* C35: when an updateHold that changes some fields reaches the store
\* after an updateHold of the same record that changed other fields, under
\* the same keys, the record then stored reads back with the values the
\* earlier call gave its
\* fields: the later write does not undo the earlier one
C35_NoLostUpdate ==
    [][(/\ last' # last
        /\ last.op = "updateHold"
        /\ last'.op = "updateHold"
        /\ last'.id = last.id
        /\ last.changed # {}
        /\ last'.changed # {}
        /\ last'.changed \cap last.changed = {}
        /\ last'.encKey = last.encKey
        /\ last'.signKey = last.signKey)
           => \A f \in last.changed : ReadBack'[f] = last.given[f]]_vars

(***************************************************************************)
(* More properties of updateHold (Spec).                                   *)
(***************************************************************************)
\* C36: an updateHold, updateStatus or resolveHold that reached the store
\* did not write a record merged from placeholder values (the tampered,
\* locked or failed-decryption text in title, counterparty or notes), and
\* did not give a record that was flagged tampered a signature that
\* verifies
C36_NoPlaceholderWritten ==
    (last.ok /\ last.op \in {"updateHold", "updateStatus", "resolveHold"}) =>
        /\ \A f \in {"title", "counterparty", "notes"} :
              last.given[f] \notin {TAMPERED, ENCRYPTED, DECRYPTION_FAILED}
        /\ ~ (last.given._isTampered /\ Verifies(written[last.id], last.signKey))

initialSnapshot ==
    /\ IF latest = NoSnapshot THEN TRUE
       ELSE <<latest.encKey, latest.signKey>> # <<encryptionKey, signingKey>>
    /\ snapshotArrives

InitLive ==
    /\ user = NoUser
    /\ encryptionKey = NoKey
    /\ signingKey = NoKey
    /\ authError = Null
    /\ calls = <<>>
    /\ authUser = NoUser
    /\ \E newHold \in NewHolds, kind \in TamperKinds :
          LET stored == addHoldDoc(newHold, UidString(U1), deriveKey("p1", U1),
                                   deriveSigningKey("p1", U1), 1, 0)
          IN  /\ db \in {[i \in HoldIds |-> IF i = 1 THEN d ELSE Absent] :
                            d \in {stored, Tampered(stored, kind)}}
              /\ written = [i \in HoldIds |-> IF i = 1 THEN stored ELSE Absent]
              /\ nextIv = 1 + addHoldIvs(newHold)
    /\ holds = <<>>
    /\ error = Null
    /\ tampers = 0
    /\ clock = 0
    /\ last = NoCall
    /\ st = [pc |-> "off"]
    /\ benchmarks = {}
    /\ pending = << >>
    /\ latest = NoSnapshot
    /\ storage = << >>
    /\ uploads = << >>
    /\ url = [none |-> TRUE]

NextLive ==
    \/ sessionRestored
    \/ \E password \in Passwords : login(password)
    \/ logout
    \/ snapshotArrives
    \/ \E k \in 1 .. MaxPending : snapshotDone(k)

\* a callback in flight leaves pending: what a snapshotDone step does to
\* pending, and snapshotDone(k) is enabled for every k of DOMAIN pending
callbackGoesOn ==
    \E k \in DOMAIN pending :
        pending' = [j \in 1 .. Len(pending) - 1 |->
                       IF j < k THEN pending[j] ELSE pending[j + 1]]

\* a snapshot that onSnapshot owes is delivered, and a started callback
\* goes on
SpecLive ==
    /\ InitLive
    /\ [][NextLive]_vars
    /\ WF_vars(initialSnapshot)
    /\ WF_pending(callbackGoesOn)

\* C37: once the vault is unlocked with the keys of a password and the
\* listener can still deliver its snapshot, the holds list comes to be the
\* stored records as docToHold makes them with these keys, unless the
\* keys or the user change before
C37_UnlockRefreshesList ==
    \A password \in Passwords :
        (/\ user # NoUser
         /\ encryptionKey = deriveKey(password, U1)
         /\ signingKey = deriveSigningKey(password, U1)
         /\ latest.n < MaxSnapshots
         /\ <<NoKey, NoKey>> = IF latest = NoSnapshot THEN <<NoKey, NoKey>>
                               ELSE <<latest.encKey, latest.signKey>>)
            ~> \/ user = NoUser
               \/ encryptionKey # deriveKey(password, U1)
               \/ signingKey # deriveSigningKey(password, U1)
               \/ holds \in Sorted([n \in DOMAIN QueryDocs |->
                                       docToHold(QueryDocs[n], db[QueryDocs[n]],
                                                 encryptionKey, signingKey, clock)])
====
